---- MODULE Spec2Model ----
(***************************************************************************)
(* Token store of cmd_service.py: the token file, its parser and writer,   *)
(* and authenticate() run by concurrent request threads under the global   *)
(* lock.  Text is modelled as sequences of one-character strings so that   *)
(* parsing and formatting are computed, not assumed.                       *)
(***************************************************************************)
EXTENDS Integers, Sequences, FiniteSets, TLC

\* ------------------------------------------------------------------ bounds
MaxLines == 3
MaxSharedLines == 1
MaxCalls == 2
MaxTicks == 2
NumThreads == 2
MaxRequests == 2      \* HTTP requests handled in one behaviour
MaxCommands == 2      \* commands in the body of one POST
MaxSplitContent == 7  \* characters of a content handed to the splitter
MaxChunkSize == 3     \* chunk sizes handed to the splitter
MaxContent == 5        \* characters of the content of a command
MaxStreamLines == 2
MaxValue == 4          \* characters of a value that is quoted
CHUNK_SIZE == 2       \* 800 in the source (line 44), scaled to the contents

\* --------------------------------------------------------- program constants
SESSION_TIMEOUT == 600

\* A timestamp prefix has at least this many digits: \d{10,}.
MinTimestampDigits == 10

\* Python's None for the "timestamp" key of permanent and unused entries.
None == 0 - 1

\* Epoch second of the oldest session in the initial stores, the smallest
\* the file format can carry, and the clock value of the first state: that
\* session is exactly SESSION_TIMEOUT old.
Epoch == 10 ^ (MinTimestampDigits - 1)
Now0 == Epoch + SESSION_TIMEOUT

Threads == 1..NumThreads
NoThread == 0

\* ------------------------------------------------------------------- text
DigitChars == <<"0", "1", "2", "3", "4", "5", "6", "7", "8", "9">>
Digit == {DigitChars[i] : i \in 1..10}
DigitVal(c) == (CHOOSE i \in 1..10 : DigitChars[i] = c) - 1

\* Characters removed by str.strip().
Whitespace == {" ", "\t", "\n", "\r"}

\* str.strip()
strip(s) ==
  LET keep == {i \in 1..Len(s) : s[i] \notin Whitespace}
  IN IF keep = {} THEN <<>>
     ELSE LET lo == CHOOSE i \in keep : \A j \in keep : i <= j
              hi == CHOOSE i \in keep : \A j \in keep : j <= i
          IN SubSeq(s, lo, hi)

\* str.startswith(p)
startswith(s, p) == Len(s) >= Len(p) /\ SubSeq(s, 1, Len(p)) = p

\* int(<decimal digits>)
RECURSIVE int(_)
int(ds) ==
  IF ds = <<>> THEN 0
  ELSE int(SubSeq(ds, 1, Len(ds) - 1)) * 10 + DigitVal(ds[Len(ds)])

\* f"{n}" for a non-negative integer
RECURSIVE str(_)
str(n) ==
  IF n < 10 THEN <<DigitChars[n + 1]>>
  ELSE str(n \div 10) \o <<DigitChars[(n % 10) + 1]>>

\* "for line in f": the lines of a text, each with its terminating newline.
RECURSIVE SplitLines(_)
SplitLines(text) ==
  IF text = <<>> THEN <<>>
  ELSE LET nl == {i \in 1..Len(text) : text[i] = "\n"}
       IN IF nl = {} THEN <<text>>
          ELSE LET cut == CHOOSE i \in nl : \A j \in nl : i <= j
               IN <<SubSeq(text, 1, cut)>> \o SplitLines(SubSeq(text, cut + 1, Len(text)))

PermanentPrefix == <<"p", "e", "r", "m", "a", "n", "e", "n", "t", ":">>

\* ------------------------------------------------------- parse_token_file
\* Length of the leading run of decimal digits of s.
DigitRun(s) ==
  LET stop == {i \in 1..Len(s) : s[i] \notin Digit}
  IN IF stop = {} THEN Len(s)
     ELSE (CHOOSE i \in stop : \A j \in stop : i <= j) - 1

\* re.match(r"^(\d{10,}):(.+)$", stripped): the digit run is greedy and must
\* be followed by ':' and at least one more character.
TimedMatch(stripped) ==
  LET d == DigitRun(stripped)
  IN d >= MinTimestampDigits /\ Len(stripped) >= d + 2 /\ stripped[d + 1] = ":"

\* The entry of one non-skipped line (the unread "raw_line" key is left out).
ParseLine(stripped) ==
  IF startswith(stripped, PermanentPrefix)
  THEN [token |-> strip(SubSeq(stripped, Len(PermanentPrefix) + 1, Len(stripped))),
        kind |-> "permanent", timestamp |-> None]
  ELSE IF TimedMatch(stripped)
       THEN LET d == DigitRun(stripped)
            IN [token |-> strip(SubSeq(stripped, d + 2, Len(stripped))),
                kind |-> "timed", timestamp |-> int(SubSeq(stripped, 1, d))]
       ELSE [token |-> stripped, kind |-> "unused", timestamp |-> None]

\* Blank lines and lines starting with '#' are skipped.
Skipped(stripped) == stripped = <<>> \/ stripped[1] = "#"

RECURSIVE ParseLines(_)
ParseLines(lines) ==
  IF lines = <<>> THEN <<>>
  ELSE LET stripped == strip(Head(lines))
       IN (IF Skipped(stripped) THEN <<>> ELSE <<ParseLine(stripped)>>)
          \o ParseLines(Tail(lines))

\* f is the file: [exists, text].
parse_token_file(f) ==
  IF ~f.exists THEN <<>> ELSE ParseLines(SplitLines(f.text))

\* ------------------------------------------------------- write_token_file
FormatEntry(e) ==
  IF e.kind = "permanent" THEN PermanentPrefix \o e.token \o <<"\n">>
  ELSE IF e.kind = "timed" THEN str(e.timestamp) \o <<":">> \o e.token \o <<"\n">>
  ELSE e.token \o <<"\n">>

RECURSIVE FormatEntries(_)
FormatEntries(es) ==
  IF es = <<>> THEN <<>> ELSE FormatEntry(Head(es)) \o FormatEntries(Tail(es))

\* open(TOKEN_FILE, "w") creates or truncates the file.
write_token_file(es) == [exists |-> TRUE, text |-> FormatEntries(es)]


\* ------------------------------------------------------------ authenticate
\* Line 111: a timed entry is expired SESSION_TIMEOUT seconds after its stamp.
IsExpiredStrict(e, nw) == e.kind = "timed" /\ nw - e.timestamp > SESSION_TIMEOUT
IsExpired(e, nw) == e.kind = "timed" /\ nw - e.timestamp >= SESSION_TIMEOUT

\* Line 116: only the first entry carrying the token is the match.
IsMatchAny(already, e, tok) == e.token = tok
IsMatch(already, e, tok) == ~already /\ e.token = tok

\* Lines 118-127: what the match does to the matched entry, and whether it
\* sets "changed".
MatchUpdateNoRefresh(e, nw) ==
  IF e.kind = "unused"
  THEN [entry |-> [e EXCEPT !.kind = "timed", !.timestamp = nw], changed |-> TRUE]
  ELSE [entry |-> e, changed |-> FALSE]
MatchUpdateNoPromote(e, nw) ==
  IF e.kind = "timed"
  THEN [entry |-> [e EXCEPT !.timestamp = nw], changed |-> TRUE]
  ELSE [entry |-> e, changed |-> FALSE]
MatchUpdateStampAll(e, nw) ==
  [entry |-> [e EXCEPT !.kind = "timed", !.timestamp = nw], changed |-> TRUE]
MatchUpdate(e, nw) ==
  IF e.kind = "unused"
  THEN [entry |-> [e EXCEPT !.kind = "timed", !.timestamp = nw], changed |-> TRUE]
  ELSE IF e.kind = "timed"
       THEN [entry |-> [e EXCEPT !.timestamp = nw], changed |-> TRUE]
       ELSE [entry |-> e, changed |-> FALSE]

\* Line 129: kept.append(e)
KeepEntryFront(kept, e) == <<e>> \o kept
KeepEntry(kept, e) == Append(kept, e)

\* Lines 105-129: the pass over the entries, from entry i on, with the
\* loop state st = [kept, changed, matched].
RECURSIVE ScanFrom(_, _, _, _, _)
ScanFrom(es, i, tok, nw, st) ==
  IF i > Len(es) THEN st
  ELSE LET e == es[i]
       IN IF IsExpired(e, nw)
          THEN ScanFrom(es, i + 1, tok, nw, [st EXCEPT !.changed = TRUE])
          ELSE IF IsMatch(st.matched, e, tok)
               THEN ScanFrom(es, i + 1, tok, nw,
                      [kept |-> KeepEntry(st.kept, MatchUpdate(e, nw).entry),
                       changed |-> st.changed \/ MatchUpdate(e, nw).changed,
                       matched |-> TRUE])
               ELSE ScanFrom(es, i + 1, tok, nw,
                      [st EXCEPT !.kept = KeepEntry(st.kept, e)])

Scan(es, tok, nw) ==
  ScanFrom(es, 1, tok, nw, [kept |-> <<>>, changed |-> FALSE, matched |-> FALSE])

\* Lines 131-132: the file is rewritten only when something changed.
ShouldWriteAlways(chg) == TRUE
ShouldWrite(chg) == chg

\* One whole authenticate call on file f, as run alone under the lock:
\* the file it leaves and the value it returns.
authenticate(f, tok, nw) ==
  LET st == Scan(parse_token_file(f), tok, nw)
  IN [file |-> IF ShouldWrite(st.changed) THEN write_token_file(st.kept) ELSE f,
      result |-> st.matched]

\* ------------------------------------------------------------------ state
VARIABLES
  TOKEN_FILE,      \* the token file: [exists, text]
  clock,           \* time.time(), whole seconds
  lock,            \* holder of the global lock, or NoThread
  pc,              \* per thread: position in authenticate
  provided_token,  \* per thread: the argument of the call
  now,             \* per thread: the local "now"
  fileRead,        \* per thread: the file as parse_token_file read it
  kept,            \* per thread: the local "kept"
  changed,         \* per thread: the local "changed"
  matched,         \* per thread: the local "matched", the value returned
  calls,           \* number of calls started
  ticks,           \* number of clock advances
  serial,          \* history: the file left by running the calls that have
                   \* taken the lock one at a time, in the order they took it
  request,         \* the HTTP request handled last
  status,          \* the status code of its response
  executed,        \* commands it handed to execute_command
  written,         \* vault files it wrote
  requests,        \* number of requests handled
  original,        \* the token file before it was parsed and written again
  rewritten,       \* whether it was
  content,         \* the content handed to _split_content
  chunk_size,      \* the chunk size handed to it
  chunks,          \* the chunks it returned; <<>> before it ran
  cmd,             \* the command line handed to execute_command
  epc,             \* position in execute_command
  parsed,          \* its locals base_cmd, command, params, flags
  chunk_index,     \* the local "i" of _chunked_retry
  file_param,      \* the local "file_param" of _chunked_retry
  invoked,         \* the Executor calls so far: argv, timeout, outcome
  result,          \* what execute_command returned
  target,          \* the text of the note the command works on
  allowed,         \* the local "allowed" of execute_command; {} before
                   \* the allow-list was read
  ALLOWED_COMMANDS_FILE, \* the allow-list file on disk
  commands,        \* the "commands" list of the body do_POST handles
  position,        \* the entries of it the loop of do_POST has been through
  output_parts,    \* the local "output_parts" of do_POST
  response,        \* the response do_POST sent
  completed,       \* what a call of the Executor returned to
                   \* _run_with_output: stdout, stderr, exit code
  filtered,        \* the text _run_with_output returned for it
  handler,         \* per thread: position of the request it serves
  run,             \* per thread: the execute_command it is in
  sent,            \* per thread: the contents its calls put into the note
  VAULT_PATH_FILE, \* the vault-path file on disk
  OBSIDIAN_CONFIG, \* the configuration file of Obsidian on disk
  vault_path       \* what get_vault_path returned

\* The state of the HTTP handler.
httpVars == <<request, status, executed, written, requests>>

\* The state outside the token store.
\* The state of the parse-and-write round trip.
rtVars == <<original, rewritten>>

\* The state of the splitter.
splitVars == <<content, chunk_size, chunks>>

\* The state of execute_command; its retry keeps its chunks in "chunks".
execVars == <<cmd, epc, parsed, chunk_index, file_param, invoked, result,
              target, allowed>>

\* The allow-list file and the state of the command loop of do_POST.
batchVars == <<ALLOWED_COMMANDS_FILE, commands, position, output_parts,
               response>>

\* The state of _run_with_output.
filterVars == <<completed, filtered>>

\* The request handlers of the server threads.
serveVars == <<handler, run, sent>>

\* The two files get_vault_path reads and what it returned.
vaultVars == <<VAULT_PATH_FILE, OBSIDIAN_CONFIG, vault_path>>

extVars == <<httpVars, rtVars, splitVars, execVars, batchVars, filterVars,
             serveVars, vaultVars>>

vars == <<TOKEN_FILE, clock, lock, pc, provided_token, now, fileRead, kept,
          changed, matched, calls, ticks, serial, extVars>>

TokA == <<"a">>
TokB == <<"b">>

\* Candidate tokens of the calls; the last one is the empty string.
Candidates == {TokA, TokB, <<>>}

\* Lines the initial files are made of (without the newline): a permanent
\* token, a bare "permanent:" prefix, an unused token, a session that is
\* SESSION_TIMEOUT old in the first state, one that is a second younger,
\* and a comment.
LinePool ==
  { PermanentPrefix \o TokA,
    PermanentPrefix,
    TokA,
    str(Epoch) \o <<":">> \o TokA,
    str(Epoch + 1) \o <<":", " ">> \o TokB,
    <<"#", " ", "a">> }

RECURSIVE JoinLines(_)
JoinLines(ls) ==
  IF ls = <<>> THEN <<>> ELSE Head(ls) \o <<"\n">> \o JoinLines(Tail(ls))

\* The texts of at most n lines of the pool.
Texts(n) == UNION {{JoinLines(ls) : ls \in [1..k -> LinePool]} : k \in 0..n}

NoFile == [exists |-> FALSE, text |-> <<>>]

\* The initial files of at most n lines, and the absent file.
Files(n) == {NoFile} \cup {[exists |-> TRUE, text |-> x] : x \in Texts(n)}

\* The texts and files of at most n lines of a pool.
TextsOf(pool, n) == UNION {{JoinLines(ls) : ls \in [1..k -> pool]} : k \in 0..n}
FilesOf(pool, n) == {NoFile} \cup {[exists |-> TRUE, text |-> x] : x \in TextsOf(pool, n)}

\* Seconds by which one clock advance moves the clock: two advances make a
\* session stamped before them exactly SESSION_TIMEOUT old.
TickStep == SESSION_TIMEOUT \div 2

\* The token store's own variables.
authVars == <<TOKEN_FILE, clock, lock, pc, provided_token, now, fileRead,
              kept, changed, matched, calls, ticks, serial>>

\* No request handled yet.
NoRequest == [method |-> "none", header |-> <<>>, before |-> NoFile, at |-> 0]

HttpIdle ==
  /\ request = NoRequest
  /\ status = 0
  /\ executed = 0
  /\ written = 0
  /\ requests = 0

\* The state outside the token store before anything ran.
RtIdle ==
  /\ original = NoFile
  /\ rewritten = FALSE

SplitIdle ==
  /\ content = <<>>
  /\ chunk_size = 1
  /\ chunks = <<>>

\* The value None where the code has a string or None.
NoneToken == <<"None">>

NoParsed == [base_cmd |-> <<>>, command |-> NoneToken, params |-> <<>>,
             flags |-> {}]

NoResult == [kind |-> "none", output |-> <<>>]

\* What the note holds before the command.
Prior == <<"0">>

ExecIdle ==
  /\ cmd = <<>>
  /\ epc = "idle"
  /\ parsed = NoParsed
  /\ chunk_index = 0
  /\ file_param = NoneToken
  /\ invoked = <<>>
  /\ result = NoResult
  /\ target = Prior
  /\ allowed = {}

\* No body is being handled.
NoResponse == [status |-> 0, text |-> <<>>]
LoopIdle ==
  /\ commands = <<>>
  /\ position = 0
  /\ output_parts = <<>>
  /\ response = NoResponse

\* No allow-list file on disk.
BatchIdle == ALLOWED_COMMANDS_FILE = NoFile /\ LoopIdle

\* No call has returned to _run_with_output.
NoCompleted == [stdout |-> <<>>, stderr |-> <<>>, returncode |-> 0]
FilterIdle ==
  /\ completed = NoCompleted
  /\ filtered = NoneToken

\* No thread serves a request.
NoRun == [p |-> NoParsed, chunks |-> <<>>, idx |-> 0, fparam |-> NoneToken,
          argv |-> <<>>]
ServeIdle ==
  /\ handler = [t \in Threads |-> "idle"]
  /\ run = [t \in Threads |-> NoRun]
  /\ sent = [t \in Threads |-> <<>>]

\* No configuration on disk and no call of get_vault_path.
NoConfig == [exists |-> FALSE, valid |-> FALSE, vaults |-> <<>>]
NotCalled == [done |-> FALSE, value |-> NoneToken]
VaultIdle ==
  /\ VAULT_PATH_FILE = NoFile
  /\ OBSIDIAN_CONFIG = NoConfig
  /\ vault_path = NotCalled

ExtIdle ==
  /\ HttpIdle /\ RtIdle /\ SplitIdle /\ ExecIdle /\ BatchIdle /\ FilterIdle
  /\ ServeIdle /\ VaultIdle

\* The token store before any call, with one of the given files on disk.
StoreInit(files) ==
  /\ TOKEN_FILE \in files
  /\ serial = TOKEN_FILE
  /\ clock = Now0
  /\ lock = NoThread
  /\ pc = [t \in Threads |-> "idle"]
  /\ provided_token = [t \in Threads |-> <<>>]
  /\ now = [t \in Threads |-> 0]
  /\ fileRead = [t \in Threads |-> NoFile]
  /\ kept = [t \in Threads |-> <<>>]
  /\ changed = [t \in Threads |-> FALSE]
  /\ matched = [t \in Threads |-> FALSE]
  /\ calls = 0
  /\ ticks = 0

\* The state before any call, with one of the given files on disk.
InitWith(files) == StoreInit(files) /\ ExtIdle

\* ---------------------------------------------------------------- actions
\* The clock advances.
Tick ==
  /\ ticks < MaxTicks
  /\ clock' = clock + TickStep
  /\ ticks' = ticks + 1
  /\ UNCHANGED <<TOKEN_FILE, lock, pc, provided_token, now, fileRead, kept,
                 changed, matched, calls, serial,
                 extVars>>

\* Line 101: a thread enters authenticate and reads the clock.
Enter(t, tok) ==
  /\ pc[t] = "idle"
  /\ calls < MaxCalls
  /\ calls' = calls + 1
  /\ provided_token' = [provided_token EXCEPT ![t] = tok]
  /\ now' = [now EXCEPT ![t] = clock]
  /\ pc' = [pc EXCEPT ![t] = "lock"]
  /\ UNCHANGED <<TOKEN_FILE, clock, lock, fileRead, kept, changed, matched,
                 ticks, serial>>

\* A call of authenticate on its own.  Idle threads are interchangeable,
\* so the call goes to the lowest of them.
Call(t, tok) ==
  /\ \A u \in Threads : u < t => pc[u] # "idle"
  /\ Enter(t, tok)
  /\ UNCHANGED extVars

\* Line 103: "with lock" blocks until the lock is free.
LockFreeIgnored == TRUE
LockFree == lock = NoThread

Acquire(t) ==
  /\ pc[t] = "lock"
  /\ LockFree
  /\ lock' = t
  /\ serial' = authenticate(serial, provided_token[t], now[t]).file
  /\ pc' = [pc EXCEPT ![t] = "read"]
  /\ UNCHANGED <<TOKEN_FILE, clock, provided_token, now, fileRead, kept,
                 changed, matched, calls, ticks,
                 extVars>>

\* Lines 104-129: read and parse the file, then the pass over the entries.
Read(t) ==
  /\ pc[t] = "read"
  /\ LET st == Scan(parse_token_file(TOKEN_FILE), provided_token[t], now[t])
     IN /\ kept' = [kept EXCEPT ![t] = st.kept]
        /\ changed' = [changed EXCEPT ![t] = st.changed]
        /\ matched' = [matched EXCEPT ![t] = st.matched]
  /\ fileRead' = [fileRead EXCEPT ![t] = TOKEN_FILE]
  /\ pc' = [pc EXCEPT ![t] = "write"]
  /\ UNCHANGED <<TOKEN_FILE, clock, lock, provided_token, now, calls,
                 ticks, serial,
                 extVars>>

\* Lines 131-132: rewrite the file when something changed.
Persist(t) ==
  /\ pc[t] = "write"
  /\ TOKEN_FILE' = IF ShouldWrite(changed[t]) THEN write_token_file(kept[t])
                   ELSE TOKEN_FILE
  /\ pc' = [pc EXCEPT ![t] = "unlock"]
  /\ UNCHANGED <<clock, lock, provided_token, now, fileRead, kept, changed,
                 matched, calls, ticks, serial,
                 extVars>>

\* Lines 103, 134: leave the "with" block and return matched; the locals
\* of the call are gone.
LeaveHolding(t) ==
  /\ pc[t] = "unlock"
  /\ lock' = lock
  /\ pc' = [pc EXCEPT ![t] = "idle"]
  /\ provided_token' = [provided_token EXCEPT ![t] = <<>>]
  /\ now' = [now EXCEPT ![t] = 0]
  /\ fileRead' = [fileRead EXCEPT ![t] = NoFile]
  /\ kept' = [kept EXCEPT ![t] = <<>>]
  /\ changed' = [changed EXCEPT ![t] = FALSE]
  /\ matched' = [matched EXCEPT ![t] = FALSE]
  /\ UNCHANGED <<TOKEN_FILE, clock, calls, ticks, serial>>
Leave(t) ==
  /\ pc[t] = "unlock"
  /\ lock' = NoThread
  /\ pc' = [pc EXCEPT ![t] = "idle"]
  /\ provided_token' = [provided_token EXCEPT ![t] = <<>>]
  /\ now' = [now EXCEPT ![t] = 0]
  /\ fileRead' = [fileRead EXCEPT ![t] = NoFile]
  /\ kept' = [kept EXCEPT ![t] = <<>>]
  /\ changed' = [changed EXCEPT ![t] = FALSE]
  /\ matched' = [matched EXCEPT ![t] = FALSE]
  /\ UNCHANGED <<TOKEN_FILE, clock, calls, ticks, serial>>

\* The return of a call of authenticate on its own.
Release(t) == Leave(t) /\ UNCHANGED extVars

Next ==
  \/ Tick
  \/ \E t \in Threads, tok \in Candidates : Call(t, tok)
  \/ \E t \in Threads : Acquire(t)
  \/ \E t \in Threads : Read(t)
  \/ \E t \in Threads : Persist(t)
  \/ \E t \in Threads : Release(t)

\* Requests are served by concurrent threads (ThreadingHTTPServer).
Init == InitWith(Files(MaxSharedLines))

Spec == Init /\ [][Next]_vars

\* The same calls made one after the other, as by a single client that
\* waits for each answer, on the larger initial files.
InitSerial == InitWith(Files(MaxLines))

NoCallRunning == \A u \in Threads : pc[u] = "idle"

NextSerial ==
  \/ Tick
  \/ \E t \in Threads, tok \in Candidates : NoCallRunning /\ Call(t, tok)
  \/ \E t \in Threads : Acquire(t)
  \/ \E t \in Threads : Read(t)
  \/ \E t \in Threads : Persist(t)
  \/ \E t \in Threads : Release(t)

SpecSerial == InitSerial /\ [][NextSerial]_vars

\* ----------------------------------------------------------------- claims
\* A call that is at "unlock" has finished its work and still holds the
\* lock: fileRead is the store it read, TOKEN_FILE the store it leaves,
\* matched the value it returns.
Finished(t) == pc[t] = "unlock"

\* An entry that is expired at time nw, as the specification words it.
Stale(e, nw) == e.kind = "timed" /\ nw - e.timestamp >= 600

\* The entries of es that are not expired at nw, in order.
Live(es, nw) == SelectSeq(es, LAMBDA e : ~Stale(e, nw))

\* Positions of the entries of es that carry the token.
Carrying(es, tok) == {i \in DOMAIN es : es[i].token = tok}

\* First position of es carrying the token, 0 when there is none.
FirstCarrying(es, tok) ==
  IF Carrying(es, tok) = {} THEN 0
  ELSE CHOOSE i \in Carrying(es, tok) : \A j \in Carrying(es, tok) : i <= j

\* What a finished call saw and left: the entries it read, those of them
\* that are not expired at its now, the position of its match among these
\* (0 without a match), and the entries of the store it leaves.
View(t) ==
  LET b == parse_token_file(fileRead[t])
      s == Live(b, now[t])
  IN [before |-> b, live |-> s, pos |-> FirstCarrying(s, provided_token[t]),
      after |-> parse_token_file(TOKEN_FILE)]

\* C1: authenticate returns true exactly when the store it read holds a
\* non-expired entry whose token is the candidate, whatever its kind.
C1_TrueIffLiveEntry ==
  \A t \in Threads : Finished(t) =>
    LET v == View(t)
    IN matched[t] <=> \E i \in DOMAIN v.before :
                        /\ v.before[i].token = provided_token[t]
                        /\ ~Stale(v.before[i], now[t])

\* A call returned true although the store it read also held an expired
\* entry with the candidate's token.
C1_Witness ==
  \E t \in Threads :
    /\ Finished(t)
    /\ matched[t]
    /\ \E i \in DOMAIN View(t).before :
         /\ View(t).before[i].token = provided_token[t]
         /\ Stale(View(t).before[i], now[t])

\* C2: a token whose one entry is Timed with timestamp ts authenticates at
\* now exactly when now - ts < 600; a success leaves the entry stamped with
\* now, a failure removes it.
C2_SlidingSession ==
  \A t \in Threads : Finished(t) =>
    LET v == View(t)
        held == Carrying(v.before, provided_token[t])
        left == Carrying(v.after, provided_token[t])
    IN (Cardinality(held) = 1 /\ \A i \in held : v.before[i].kind = "timed") =>
         \A i \in held :
           IF now[t] - v.before[i].timestamp < 600
           THEN /\ matched[t]
                /\ Cardinality(left) = 1
                /\ \A j \in left : /\ v.after[j].kind = "timed"
                                    /\ v.after[j].timestamp = now[t]
           ELSE ~matched[t] /\ left = {}

\* A session first stamped at Epoch + 1 is accepted 600 s or more after
\* that stamp, because an earlier call refreshed it.
C2_Witness ==
  \E t \in Threads :
    /\ Finished(t)
    /\ matched[t]
    /\ provided_token[t] = TokB
    /\ Cardinality(Carrying(View(t).before, TokB)) = 1
    /\ now[t] - (Epoch + 1) >= 600

\* C3: after a call on an existing store no Timed entry that is 600 s old
\* or older at the call's now is left, whoever the candidate was and
\* whatever the call returns.
C3_NoExpiredLeft ==
  \A t \in Threads : (Finished(t) /\ fileRead[t].exists) =>
    LET v == View(t)
    IN \A j \in DOMAIN v.after : ~Stale(v.after[j], now[t])

\* A call that returned true swept an expired entry of another token.
C3_Witness ==
  \E t \in Threads :
    /\ Finished(t)
    /\ matched[t]
    /\ \E i \in DOMAIN View(t).before :
         /\ View(t).before[i].token # provided_token[t]
         /\ Stale(View(t).before[i], now[t])

\* The match of a finished call with view v is an entry of kind k.
MatchKind(v, k) == v.pos # 0 /\ v.live[v.pos].kind = k

\* C4 as stated: a call whose candidate matches a Permanent entry leaves
\* the store identical.
C4_PermanentNeverChangesStore ==
  \A t \in Threads : (Finished(t) /\ MatchKind(View(t), "permanent")) =>
    TOKEN_FILE = fileRead[t]

\* C4 as amended: a call whose match is Permanent leaves every non-expired
\* entry as it was and only removes the expired Timed entries; when the
\* store it read holds none, the store is left identical.
C4_PermanentOnlySweeps ==
  \A t \in Threads : Finished(t) =>
    LET v == View(t)
    IN MatchKind(v, "permanent") =>
         /\ v.after = v.live
         /\ (v.live = v.before => TOKEN_FILE = fileRead[t])

\* A call matched a Permanent entry and swept an expired one.
C4_Witness ==
  \E t \in Threads :
    /\ Finished(t)
    /\ MatchKind(View(t), "permanent")
    /\ View(t).live # View(t).before
    /\ TOKEN_FILE # fileRead[t]

\* Seconds after a promotion at which a further call is tried.
LaterOffsets == {0, 1, 599}

\* C5: a call that matches an Unused entry returns true and leaves that
\* entry Timed with the call's now as timestamp; a further call with the
\* same token on the store it leaves, less than 600 s later, returns true.
C5_UnusedPromoted ==
  \A t \in Threads : Finished(t) =>
    LET v == View(t)
    IN MatchKind(v, "unused") =>
         /\ matched[t]
         /\ Len(v.after) = Len(v.live)
         /\ v.after[v.pos] = [token |-> provided_token[t], kind |-> "timed",
                              timestamp |-> now[t]]
         /\ \A d \in LaterOffsets :
              authenticate(TOKEN_FILE, provided_token[t], now[t] + d).result

\* A call is accepted on an entry that an earlier call promoted: token "a"
\* starts Unused or expired, so a live Timed "a" was stamped by a call.
C5_Witness ==
  \E t \in Threads :
    /\ Finished(t)
    /\ matched[t]
    /\ provided_token[t] = TokA
    /\ MatchKind(View(t), "timed")
    /\ View(t).live[View(t).pos].timestamp >= Now0
    /\ now[t] > View(t).live[View(t).pos].timestamp

\* C6: of several non-expired entries carrying the candidate only the
\* first is promoted or refreshed; each later one keeps its kind and
\* timestamp.
C6_FirstMatchWins ==
  \A t \in Threads : Finished(t) =>
    LET v == View(t)
    IN v.pos # 0 =>
         /\ Len(v.after) = Len(v.live)
         /\ v.after[v.pos].kind # "unused"
         /\ (v.after[v.pos].kind = "timed" => v.after[v.pos].timestamp = now[t])
         /\ \A k \in Carrying(v.live, provided_token[t]) \ {v.pos} :
              /\ v.after[k].kind = v.live[k].kind
              /\ v.after[k].timestamp = v.live[k].timestamp

\* A call promoted or refreshed the first of two live entries carrying
\* its candidate, the second of which it could have changed too.
C6_Witness ==
  \E t \in Threads :
    /\ Finished(t)
    /\ changed[t]
    /\ \E k \in Carrying(View(t).live, provided_token[t]) :
         /\ k > View(t).pos
         /\ View(t).live[k].kind # "permanent"
         /\ View(t).live[k].timestamp # now[t]

\* Positions at which two entry sequences of equal length differ.
Differing(xs, ys) == {k \in DOMAIN xs : xs[k] # ys[k]}

\* C7: the entries after a call are the entries before it without the
\* expired Timed ones, in the same order and with the same tokens, and at
\* most one of them, the match, has another kind or timestamp.
C7_OrderAndTokensKept ==
  \A t \in Threads : Finished(t) =>
    LET v == View(t)
    IN /\ Len(v.after) = Len(v.live)
       /\ \A k \in DOMAIN v.after : v.after[k].token = v.live[k].token
       /\ Cardinality(Differing(v.after, v.live)) <= 1
       /\ Differing(v.after, v.live) \subseteq {v.pos}

\* A call dropped an expired entry of a store of which two different
\* entries survive, one of them changed by the match.
C7_Witness ==
  \E t \in Threads :
    /\ Finished(t)
    /\ Len(View(t).before) > Len(View(t).live)
    /\ Len(View(t).live) >= 2
    /\ View(t).live[1] # View(t).live[2]
    /\ Cardinality(Differing(View(t).after, View(t).live)) = 1

\* C8: with the token file absent authenticate returns false for every
\* candidate and does not create the file.
C8_AbsentFile ==
  \A t \in Threads : (Finished(t) /\ ~fileRead[t].exists) =>
    ~matched[t] /\ ~TOKEN_FILE.exists

\* A call with a non-empty candidate ran on an absent file.
C8_Witness ==
  \E t \in Threads :
    /\ Finished(t)
    /\ ~fileRead[t].exists
    /\ provided_token[t] # <<>>

\* C9: authenticate("") returns false whatever the token file holds.
C9_EmptyTokenRejected ==
  \A t \in Threads : (Finished(t) /\ provided_token[t] = <<>>) => ~matched[t]

\* C35: the file is rewritten only by a call that dropped an expired entry
\* or promoted or refreshed its match; a call without a match or with a
\* Permanent match, on a store without expired entries, leaves the file as
\* it is to the character, comments included.
C35_RewrittenOnlyOnChange ==
  \A t \in Threads : Finished(t) =>
    LET v == View(t)
    IN /\ changed[t] =>
            \/ v.live # v.before
            \/ MatchKind(v, "unused")
            \/ MatchKind(v, "timed")
       /\ (v.live = v.before /\ (v.pos = 0 \/ MatchKind(v, "permanent"))) =>
            ~changed[t] /\ TOKEN_FILE = fileRead[t]

\* A call matched a Permanent entry on a file with a comment and a token
\* not yet used, and the comment is still there.
C35_Witness ==
  \E t \in Threads :
    /\ Finished(t)
    /\ MatchKind(View(t), "permanent")
    /\ View(t).live = View(t).before
    /\ Len(View(t).before) = 2
    /\ \E i \in 1..Len(fileRead[t].text) : fileRead[t].text[i] = "#"
    /\ TOKEN_FILE = fileRead[t]

\* The timestamp of the first Timed entry of file f that carries the
\* token, None when there is none.
Stamp(f, tok) ==
  LET es == parse_token_file(f)
      at == {i \in DOMAIN es : es[i].token = tok /\ es[i].kind = "timed"}
  IN IF at = {} THEN None
     ELSE es[CHOOSE i \in at : \A j \in at : i <= j].timestamp

\* C37: under concurrent calls no rewrite of the store moves the timestamp
\* of a Timed entry backwards.
C37_TimestampNeverBackwards ==
  [][\A tok \in Candidates :
       (Stamp(TOKEN_FILE, tok) # None /\ Stamp(TOKEN_FILE', tok) # None) =>
         Stamp(TOKEN_FILE', tok) >= Stamp(TOKEN_FILE, tok)]_vars

\* The entries "after" come from the entries "before", in order: each has
\* the token of the entry it comes from and its kind, or is Timed where
\* that one was Unused; the entries of "before" that are left out are
\* Timed.
RECURSIVE Descends(_, _)
Descends(after, before) ==
  IF after = <<>> THEN \A i \in DOMAIN before : before[i].kind = "timed"
  ELSE IF before = <<>> THEN FALSE
  ELSE \/ /\ Head(after).token = Head(before).token
          /\ \/ Head(after).kind = Head(before).kind
             \/ Head(before).kind = "unused" /\ Head(after).kind = "timed"
          /\ Descends(Tail(after), Tail(before))
       \/ /\ Head(before).kind = "timed"
          /\ Descends(after, Tail(before))

\* Permanent and Unused entries carry no timestamp, Timed entries one.
Stamped(es) ==
  \A i \in DOMAIN es : (es[i].kind = "timed") = (es[i].timestamp # None)

\* C38: no call adds an entry, removes a Permanent or an Unused entry, or
\* changes a kind other than from Unused to Timed; a token that no entry
\* of the store carries is turned down and is carried by no entry of the
\* store the call leaves; and in every store, on disk or in the call's
\* list, Permanent and Unused entries have no timestamp and Timed entries
\* have one.
C38_LifecycleMonotone ==
  \A t \in Threads : Finished(t) =>
    LET v == View(t)
    IN /\ Descends(v.after, v.before)
       /\ Stamped(v.before) /\ Stamped(v.after) /\ Stamped(kept[t])
       /\ \A tok \in Candidates :
            Carrying(v.before, tok) = {} =>
              /\ Carrying(v.after, tok) = {}
              /\ provided_token[t] = tok => ~matched[t]

\* A call dropped an expired session, promoted the token not yet used
\* behind it and left the permanent token behind that as it was.
C38_Witness ==
  \E t \in Threads :
    /\ Finished(t)
    /\ matched[t]
    /\ Len(View(t).before) = 3
    /\ View(t).before[1].kind = "timed"
    /\ View(t).before[2].kind = "unused"
    /\ View(t).before[3].kind = "permanent"
    /\ Len(View(t).after) = 2
    /\ View(t).after[1].kind = "timed"
    /\ View(t).after[1].token = View(t).before[2].token
    /\ View(t).after[2] = View(t).before[3]

\* Threads inside the "with lock" block.
Inside == {t \in Threads : pc[t] \in {"read", "write", "unlock"}}

\* C10: the read-check-mutate-persist cycles of concurrent calls never
\* overlap, and whenever the lock is free the store is the one that running
\* the calls one at a time, in the order they took the lock, produces.
C10_CallsSerialized ==
  /\ Cardinality(Inside) <= 1
  /\ Inside # {} => lock \in Inside
  /\ lock = NoThread => TOKEN_FILE = serial

\* A call has rewritten the store and still holds the lock while another
\* call with the same token waits for the lock.
C10_Witness ==
  \E t, u \in Threads :
    /\ pc[t] = "unlock"
    /\ changed[t]
    /\ pc[u] = "lock"
    /\ provided_token[u] = provided_token[t]


\* ---------------------------------------------------------- HTTP handler
BearerPrefix == <<"B", "e", "a", "r", "e", "r", " ">>

\* Values of the Authorization header: absent (the default ""), the bare
\* prefix, a token of spaces, two tokens, a token with spaces around it, a
\* lower-case scheme and a header without a scheme.
Headers ==
  { <<>>,
    BearerPrefix,
    BearerPrefix \o <<" ">>,
    BearerPrefix \o TokA,
    BearerPrefix \o TokB,
    BearerPrefix \o <<" ">> \o TokA \o <<" ">>,
    <<"b", "e", "a", "r", "e", "r", " ">> \o TokA,
    TokA }

\* Line 406: the token of a header that starts with the prefix.
BearerToken(auth_header) ==
  strip(SubSeq(auth_header, Len(BearerPrefix) + 1, Len(auth_header)))

\* Lines 396-421: the outcome of _authenticate: whether the handler goes
\* on, the status sent when it does not, and the token file left behind.
PassAlways(granted) == TRUE
Pass(granted) == granted

CommandHandler_authenticate(auth_header, file, nw) ==
  IF ~startswith(auth_header, BearerPrefix)
  THEN [ok |-> FALSE, status |-> 401, file |-> file]
  ELSE IF BearerToken(auth_header) = <<>>
  THEN [ok |-> FALSE, status |-> 401, file |-> file]
  ELSE LET a == authenticate(file, BearerToken(auth_header), nw)
       IN IF ~Pass(a.result)
          THEN [ok |-> FALSE, status |-> 401, file |-> a.file]
          ELSE [ok |-> TRUE, status |-> 0, file |-> a.file]

\* Bodies of a POST: no body, bytes that are not JSON, JSON whose
\* "commands" is missing, empty or not a list, and lists of commands, each
\* a string or some other JSON value.
CommandLists == UNION {[1..k -> {"str", "other"}] : k \in 1..MaxCommands}
Bodies == {<<"missing">>, <<"invalid">>, <<"nolist">>} \cup CommandLists

IsCommandList(body) == body \in CommandLists

\* Lines 458-462: the commands of the list that reach execute_command.
Strings(body) == Cardinality({i \in DOMAIN body : body[i] = "str"})

\* Targets of a PUT: a path outside /vault/, an invalid relative path, a
\* good path with no vault configured, a path that resolves outside the
\* vault, and a good path.
PutPaths == {"elsewhere", "invalid", "novault", "traversal", "good"}

\* Outcomes of _write_file_as_abc: done, failed before the file was opened,
\* failed in the chown after the file was written.
WriteOutcomes == {"ok", "makedirs_failed", "chown_failed"}

Handled(method, auth_header) ==
  [method |-> method, header |-> auth_header, before |-> TOKEN_FILE,
   at |-> clock]

\* Lines 423-429.
do_GET(auth_header) ==
  /\ requests < MaxRequests
  /\ requests' = requests + 1
  /\ request' = Handled("GET", auth_header)
  /\ LET a == CommandHandler_authenticate(auth_header, TOKEN_FILE, clock)
     IN /\ TOKEN_FILE' = a.file
        /\ status' = IF a.ok THEN 200 ELSE a.status
  /\ executed' = 0
  /\ written' = 0
  /\ UNCHANGED <<clock, lock, pc, provided_token, now, fileRead, kept,
                 changed, matched, calls, ticks, serial, rtVars, splitVars,
                 execVars, batchVars, filterVars, serveVars, vaultVars>>

\* Lines 431-470.
do_POST(auth_header, body) ==
  /\ requests < MaxRequests
  /\ requests' = requests + 1
  /\ request' = Handled("POST", auth_header)
  /\ LET a == CommandHandler_authenticate(auth_header, TOKEN_FILE, clock)
     IN /\ TOKEN_FILE' = a.file
        /\ status' = IF ~a.ok THEN a.status
                     ELSE IF IsCommandList(body) THEN 200 ELSE 400
        /\ executed' = IF a.ok /\ IsCommandList(body) THEN Strings(body)
                       ELSE 0
  /\ written' = 0
  /\ UNCHANGED <<clock, lock, pc, provided_token, now, fileRead, kept,
                 changed, matched, calls, ticks, serial, rtVars, splitVars,
                 execVars, batchVars, filterVars, serveVars, vaultVars>>

\* Lines 472-522.
do_PUT(auth_header, path, outcome) ==
  /\ requests < MaxRequests
  /\ requests' = requests + 1
  /\ request' = Handled("PUT", auth_header)
  /\ LET a == CommandHandler_authenticate(auth_header, TOKEN_FILE, clock)
     IN /\ TOKEN_FILE' = a.file
        /\ status' = IF ~a.ok THEN a.status
                     ELSE IF path = "elsewhere" THEN 404
                     ELSE IF path = "invalid" THEN 400
                     ELSE IF path = "novault" THEN 503
                     ELSE IF path = "traversal" THEN 400
                     ELSE IF outcome = "ok" THEN 200 ELSE 500
        /\ written' = IF a.ok /\ path = "good"
                         /\ outcome \in {"ok", "chown_failed"}
                      THEN 1 ELSE 0
  /\ executed' = 0
  /\ UNCHANGED <<clock, lock, pc, provided_token, now, fileRead, kept,
                 changed, matched, calls, ticks, serial, rtVars, splitVars,
                 execVars, batchVars, filterVars, serveVars, vaultVars>>

\* A PUT reaches the write only on a good path.
Puts ==
  {<<p, "ok">> : p \in PutPaths \ {"good"}}
    \cup {<<"good", o>> : o \in WriteOutcomes}

\* Requests arrive one after the other while the clock advances.
NextHttp ==
  \/ Tick
  \/ \E h \in Headers : do_GET(h)
  \/ \E h \in Headers, b \in Bodies : do_POST(h, b)
  \/ \E h \in Headers, put \in Puts : do_PUT(h, put[1], put[2])

\* The token files the requests meet: none, an empty one, and one with a
\* permanent token, an unused token or a session SESSION_TIMEOUT old.
HttpLines ==
  { PermanentPrefix \o TokA, TokA, str(Epoch) \o <<":">> \o TokA }

SpecHttp == InitWith(FilesOf(HttpLines, 1)) /\ [][NextHttp]_vars

\* C11: a request that executed a command or wrote a vault file carried a
\* header "Bearer <token>" with a non-empty token that authenticate
\* accepted against the token file as it was; every other request was
\* answered 401 and executed and wrote nothing.
Credentialed(r) ==
  /\ startswith(r.header, BearerPrefix)
  /\ BearerToken(r.header) # <<>>
  /\ authenticate(r.before, BearerToken(r.header), r.at).result

C11_AuthGatesEffects ==
  request.method # "none" =>
    /\ (executed > 0 \/ written > 0) => Credentialed(request)
    /\ ~Credentialed(request) => status = 401 /\ executed = 0 /\ written = 0

\* The second request was a PUT whose token authenticate refused: answered
\* 401, nothing written.
C11_Witness ==
  /\ request.method = "PUT"
  /\ startswith(request.header, BearerPrefix)
  /\ BearerToken(request.header) # <<>>
  /\ ~Credentialed(request)
  /\ status = 401
  /\ written = 0
  /\ requests = 2


\* ------------------------------------------- parse and write, round trip
\* A session line whose timestamp has leading zeros, and one whose token
\* reads like a permanent line.
LeadingZeros == <<"0", "0", "0", "0", "0", "0", "0", "1", "0", "0">>

RoundTripLines ==
  LinePool \cup { LeadingZeros \o <<":">> \o TokA,
                  str(Epoch) \o <<":", " ">> \o PermanentPrefix \o TokA }

\* Lines 56-93: the file is parsed and the entries are written back.
Rewrite ==
  /\ ~rewritten
  /\ rewritten' = TRUE
  /\ original' = TOKEN_FILE
  /\ TOKEN_FILE' = write_token_file(parse_token_file(TOKEN_FILE))
  /\ UNCHANGED <<clock, lock, pc, provided_token, now, fileRead, kept,
                 changed, matched, calls, ticks, serial, httpVars, splitVars,
                 execVars, batchVars, filterVars, serveVars, vaultVars>>

NextRoundTrip == Rewrite

SpecRoundTrip == InitWith(FilesOf(RoundTripLines, MaxLines)) /\ [][NextRoundTrip]_vars

\* C12: parsing a token file, writing the entries and parsing the result
\* gives the same sequence of (kind, token, timestamp) triples as parsing
\* the file, also when a timestamp is written with leading zeros.
C12_RoundTripKeepsEntries ==
  rewritten => parse_token_file(TOKEN_FILE) = parse_token_file(original)


\* --------------------------------------------------------- _split_content
Min(a, b) == IF a <= b THEN a ELSE b

\* s.rfind(sub, start, end) for a one-character sub: the highest index
\* (counted from 0) in start..end-1 where s holds sub, or -1.
rfindLowest(s, sub, start, end) ==
  LET hits == {i \in start..(Min(end, Len(s)) - 1) : s[i + 1] = sub}
  IN IF hits = {} THEN 0 - 1 ELSE CHOOSE i \in hits : \A j \in hits : i <= j
rfind(s, sub, start, end) ==
  LET hits == {i \in start..(Min(end, Len(s)) - 1) : s[i + 1] = sub}
  IN IF hits = {} THEN 0 - 1 ELSE CHOOSE i \in hits : \A j \in hits : j <= i

\* Lines 255-259: where the next chunk ends.
CutPointOverlong(found, size) == IF found <= 0 THEN size + 1 ELSE found + 1
CutPoint(found, size) == IF found <= 0 THEN size ELSE found + 1

\* Line 261: content[cut:].
RestSkipping(text, cut) == SubSeq(text, cut + 2, Len(text))
Rest(text, cut) == SubSeq(text, cut + 1, Len(text))

\* Lines 250-261: the loop.
RECURSIVE SplitLoop(_, _)
SplitLoop(text, size) ==
  IF text = <<>> THEN <<>>
  ELSE IF Len(text) <= size THEN <<text>>
  ELSE LET cut == CutPoint(rfind(text, "\n", 0, size), size)
       IN <<SubSeq(text, 1, cut)>> \o SplitLoop(Rest(text, cut), size)

\* Lines 245-262.
split_contentPadded(text, size) ==
  (IF Len(text) <= size THEN <<text>> ELSE SplitLoop(text, size)) \o <<<<>>>>
split_content(text, size) ==
  IF Len(text) <= size THEN <<text>> ELSE SplitLoop(text, size)

\* Contents: the first n letters, with newlines in place of the letters at
\* some positions.
Letters == <<"a", "b", "c", "d", "e", "f", "g", "h", "i", "j">>
WithNewlines(n, at) == [i \in 1..n |-> IF i \in at THEN "\n" ELSE Letters[i]]
Contents(n) == UNION {{WithNewlines(k, at) : at \in SUBSET (1..k)} : k \in 0..n}

InitSplit ==
  /\ StoreInit({NoFile})
  /\ HttpIdle
  /\ RtIdle
  /\ content \in Contents(MaxSplitContent)
  /\ chunk_size \in 1..MaxChunkSize
  /\ chunks = <<>>
  /\ ExecIdle
  /\ BatchIdle
  /\ FilterIdle
  /\ ServeIdle
  /\ VaultIdle

Split ==
  /\ chunks = <<>>
  /\ chunks' = split_content(content, chunk_size)
  /\ UNCHANGED <<authVars, httpVars, rtVars, execVars, batchVars, filterVars, serveVars, vaultVars,
                 content, chunk_size>>

NextSplit == Split

SpecSplit == InitSplit /\ [][NextSplit]_vars

RECURSIVE Concat(_)
Concat(parts) == IF parts = <<>> THEN <<>> ELSE Head(parts) \o Concat(Tail(parts))

\* C13: the chunks, put together in order, are the content.
C13_ChunksRebuildContent ==
  chunks # <<>> => Concat(chunks) = content

\* A content with newlines came back in three chunks or more.
C13_Witness ==
  /\ Len(chunks) >= 3
  /\ \E i \in 1..Len(content) : content[i] = "\n"
  /\ Concat(chunks) = content

\* C14: every chunk but the last is at most chunk_size long, and a content
\* that is at most chunk_size long comes back as one chunk.
C14_ChunksWithinSize ==
  chunks # <<>> =>
    /\ \A i \in 1..(Len(chunks) - 1) : Len(chunks[i]) <= chunk_size
    /\ Len(content) <= chunk_size => chunks = <<content>>

\* A content without a newline in its first chunk_size characters was cut
\* there, and the content was longer than two chunks.
C14_Witness ==
  /\ Len(chunks) >= 3
  /\ Len(chunks[1]) = chunk_size
  /\ \A i \in 1..chunk_size : content[i] # "\n"


\* What is left of the content when chunk i is cut.
Remaining(i) ==
  SubSeq(content, Len(Concat(SubSeq(chunks, 1, i - 1))) + 1, Len(content))

\* The places of the newlines among the first chunk_size characters of a
\* text, counted from 1.
NewlinesInWindow(text) ==
  {k \in 1..Min(chunk_size, Len(text)) : text[k] = "\n"}

Highest(S) == CHOOSE k \in S : \A j \in S : j <= k

\* C33: every chunk but the last ends with the last newline among the
\* first chunk_size characters of what was left, and is exactly the first
\* chunk_size characters when there is no newline among them or the only
\* one is the very first character.
C33_CutPointPolicy ==
  \A i \in 1..(Len(chunks) - 1) :
    LET left == Remaining(i)
        at == NewlinesInWindow(left)
    IN IF at \subseteq {1}
       THEN chunks[i] = SubSeq(left, 1, chunk_size)
       ELSE /\ chunks[i] = SubSeq(left, 1, Highest(at))
            /\ chunks[i][Len(chunks[i])] = "\n"

\* A content that starts with its window's only newline was cut after
\* chunk_size characters, and the next chunk, holding two newlines, was
\* cut after the second.
C33_Witness ==
  /\ Len(chunks) >= 3
  /\ chunk_size = 3
  /\ chunks[1] = <<"\n", "b", "c">>
  /\ chunks[2] = <<"\n", "\n">>
  /\ Len(Remaining(2)) > chunk_size


\* ------------------------------------------------------------ shlex.split
\* The characters of the model in code-point order.
Chars ==
  <<"\t", "\n", "\r", " ", "\"", "#", "'", "-", ".", "/",
    "0", "1", "2", "3", "4", "5", "6", "7", "8", "9", ":", "=", "\\", "_",
    "a", "b", "c", "d", "e", "f", "g", "h", "i", "j", "k", "l", "m",
    "n", "o", "p", "q", "r", "s", "t", "u", "v", "w", "x", "y", "z">>
ord(c) == CHOOSE i \in 1..Len(Chars) : Chars[i] = c

\* shlex in POSIX mode with whitespace_split: its quotes, the quotes inside
\* which a backslash escapes, and the escape character.
Quotes == {"\"", "'"}
EscapedQuotes == {"\""}
Escape == "\\"

\* The texts of the ValueError of shlex.
NO_CLOSING_QUOTATION ==
  <<"N", "o", " ", "c", "l", "o", "s", "i", "n", "g", " ", "q", "u", "o",
    "t", "a", "t", "i", "o", "n">>
NO_ESCAPED_CHARACTER ==
  <<"N", "o", " ", "e", "s", "c", "a", "p", "e", "d", " ", "c", "h", "a",
    "r", "a", "c", "t", "e", "r">>

\* read_token, character by character.  st.state is "between" (state ' '),
\* "word" (state 'a'), a quote character, or "escape"; st.back is the
\* state an escape returns to.  ShlexStep is what one character does.
ShlexStep(st, ch) ==
  IF st.state = "between"
  THEN IF ch \in Whitespace THEN st
       ELSE IF ch = Escape
       THEN [st EXCEPT !.state = "escape", !.back = "word"]
       ELSE IF ch \in Quotes
       THEN [st EXCEPT !.state = ch, !.quoted = TRUE]
       ELSE [st EXCEPT !.state = "word", !.token = <<ch>>]
  ELSE IF st.state \in Quotes
  THEN IF ch = st.state
       THEN [st EXCEPT !.state = "word"]
       ELSE IF ch = Escape /\ st.state \in EscapedQuotes
       THEN [st EXCEPT !.state = "escape", !.back = st.state]
       ELSE [st EXCEPT !.token = Append(st.token, ch)]
  ELSE IF st.state = "escape"
  THEN LET sofar == IF st.back \in Quotes /\ ch # Escape /\ ch # st.back
                   THEN Append(st.token, Escape) ELSE st.token
       IN [st EXCEPT !.token = Append(sofar, ch), !.state = st.back]
  ELSE \* "word"
       IF ch \in Whitespace
       THEN [state |-> "between", back |-> "between", token |-> <<>>,
             quoted |-> FALSE,
             out |-> IF st.token # <<>> \/ st.quoted
                     THEN Append(st.out, st.token) ELSE st.out]
       ELSE IF ch \in Quotes
       THEN [st EXCEPT !.state = ch, !.quoted = TRUE]
       ELSE IF ch = Escape
       THEN [st EXCEPT !.state = "escape", !.back = "word"]
       ELSE [st EXCEPT !.token = Append(st.token, ch)]

\* The end of the input: the list of tokens, or the ValueError of an
\* unclosed quotation or a trailing backslash.
ShlexEnd(st) ==
  IF st.state \in Quotes
  THEN [ok |-> FALSE, argv |-> <<>>, error |-> NO_CLOSING_QUOTATION]
  ELSE IF st.state = "escape"
  THEN [ok |-> FALSE, argv |-> <<>>, error |-> NO_ESCAPED_CHARACTER]
  ELSE [ok |-> TRUE,
        argv |-> IF st.state = "word" /\ (st.token # <<>> \/ st.quoted)
                 THEN Append(st.out, st.token) ELSE st.out,
        error |-> <<>>]

\* read_token: the characters from s[i] on are read until a token is
\* complete or the input ends; next is the place of the first unread one.
RECURSIVE ReadToken(_, _, _)
ReadToken(s, i, st) ==
  IF i > Len(s) THEN [st |-> st, next |-> i]
  ELSE LET after == ShlexStep(st, s[i])
       IN IF Len(after.out) > Len(st.out)
          THEN [st |-> after, next |-> i + 1]
          ELSE ReadToken(s, i + 1, after)

\* list(lex): token after token until the input ends.
RECURSIVE ShlexFrom(_, _, _)
ShlexFrom(s, i, st) ==
  IF i > Len(s) THEN ShlexEnd(st)
  ELSE LET read == ReadToken(s, i, st)
       IN ShlexFrom(s, read.next, read.st)

shlex_split(s) ==
  ShlexFrom(s, 1, [state |-> "between", back |-> "between", token |-> <<>>,
                   quoted |-> FALSE, out |-> <<>>])


\* ----------------------------------------- _parse_obsidian_args, rebuild
\* A dict is kept as the list of its (key, value) pairs in insertion order.
DictHas(d, key) == \E i \in DOMAIN d : d[i].key = key
DictGet(d, key, default) ==
  IF DictHas(d, key) THEN d[CHOOSE i \in DOMAIN d : d[i].key = key].value
  ELSE default
DictSet(d, key, value) ==
  IF DictHas(d, key)
  THEN [i \in DOMAIN d |-> IF d[i].key = key
                           THEN [key |-> key, value |-> value] ELSE d[i]]
  ELSE Append(d, [key |-> key, value |-> value])
DictPop(d, key) == SelectSeq(d, LAMBDA kv : kv.key # key)

\* arg.partition("="): the place of the first "=", or 0.
FirstEq(arg) ==
  LET hits == {i \in 1..Len(arg) : arg[i] = "="}
  IN IF hits = {} THEN 0 ELSE CHOOSE i \in hits : \A j \in hits : i <= j

\* Lines 226-231: the loop over argv[2:].
RECURSIVE ParseArgs(_, _)
ParseArgs(args, acc) ==
  IF args = <<>> THEN acc
  ELSE LET arg == Head(args)
           eq == FirstEq(arg)
       IN IF eq > 0
          THEN ParseArgs(Tail(args),
                 [acc EXCEPT !.params =
                    DictSet(acc.params, SubSeq(arg, 1, eq - 1),
                            SubSeq(arg, eq + 1, Len(arg)))])
          ELSE ParseArgs(Tail(args),
                 [acc EXCEPT !.flags = acc.flags \cup {arg}])

\* Lines 215-232.
parse_obsidian_args(argv) ==
  ParseArgs(SubSeq(argv, 3, Len(argv)),
            [command |-> IF Len(argv) > 1 THEN argv[2] ELSE NoneToken,
             params |-> <<>>, flags |-> {}])

\* Strings compare by code point, character by character.
RECURSIVE Less(_, _)
Less(a, b) ==
  IF b = <<>> THEN FALSE
  ELSE IF a = <<>> THEN TRUE
  ELSE IF Head(a) # Head(b) THEN ord(Head(a)) < ord(Head(b))
  ELSE Less(Tail(a), Tail(b))

RECURSIVE sorted(_)
sorted(set) ==
  IF set = {} THEN <<>>
  ELSE LET first == CHOOSE x \in set : \A y \in set : x = y \/ Less(x, y)
       IN <<first>> \o sorted(set \ {first})

\* s.replace(old, new) for a non-empty old: the occurrences are taken from
\* the left and do not overlap.
RECURSIVE replace(_, _, _)
replace(s, old, new) ==
  IF s = <<>> THEN <<>>
  ELSE IF startswith(s, old)
  THEN new \o replace(SubSeq(s, Len(old) + 1, Len(s)), old, new)
  ELSE <<Head(s)>> \o replace(Tail(s), old, new)

\* sep.join(parts)
RECURSIVE join(_, _)
join(sep, parts) ==
  IF parts = <<>> THEN <<>>
  ELSE IF Len(parts) = 1 THEN Head(parts)
  ELSE Head(parts) \o sep \o join(sep, Tail(parts))

\* Line 239: backslashes are doubled, then double quotes get a backslash.
escapedQuotesFirst(value) ==
  replace(replace(value, <<"\"">>, <<"\\", "\"">>), <<"\\">>, <<"\\", "\\">>)
escaped(value) ==
  replace(replace(value, <<"\\">>, <<"\\", "\\">>), <<"\"">>, <<"\\", "\"">>)

\* Line 240: key="escaped"
KeyValue(kv) == kv.key \o <<"=", "\"">> \o escaped(kv.value) \o <<"\"">>

\* Lines 235-242.
build_command(base_cmd, command, params, flags) ==
  join(<<" ">>,
       <<base_cmd, command>>
         \o [i \in DOMAIN params |-> KeyValue(params[i])]
         \o sorted(flags))


\* ------------------------------------------------------- execute_command
CLI_TIMEOUT == 5
DEFAULT_TIMEOUT == 30

OBSIDIAN == <<"o", "b", "s", "i", "d", "i", "a", "n">>
CREATE == <<"c", "r", "e", "a", "t", "e">>
APPEND == <<"a", "p", "p", "e", "n", "d">>
PREPEND == <<"p", "r", "e", "p", "e", "n", "d">>
DAILY_APPEND == <<"d", "a", "i", "l", "y", ":", "a", "p", "p", "e", "n", "d">>
DAILY_PREPEND == <<"d", "a", "i", "l", "y", ":", "p", "r", "e", "p", "e", "n", "d">>
UNIQUE == <<"u", "n", "i", "q", "u", "e">>
BASE_CREATE == <<"b", "a", "s", "e", ":", "c", "r", "e", "a", "t", "e">>
CONTENT == <<"c", "o", "n", "t", "e", "n", "t">>
PATH == <<"p", "a", "t", "h">>
NAME == <<"n", "a", "m", "e">>
FILE == <<"f", "i", "l", "e">>
TEMPLATE == <<"t", "e", "m", "p", "l", "a", "t", "e">>
INLINE == <<"i", "n", "l", "i", "n", "e">>
OVERWRITE == <<"o", "v", "e", "r", "w", "r", "i", "t", "e">>
OPEN == <<"o", "p", "e", "n">>
NEWTAB == <<"n", "e", "w", "t", "a", "b">>

DEFAULT_ALLOWED == {OBSIDIAN}
CONTENT_COMMANDS ==
  {CREATE, APPEND, PREPEND, DAILY_APPEND, DAILY_PREPEND, UNIQUE, BASE_CREATE}

\* Lines 142-146: the stripped lines that are neither blank nor comments.
RECURSIVE AllowedIn(_)
AllowedIn(lines) ==
  IF lines = <<>> THEN {}
  ELSE LET stripped == strip(Head(lines))
       IN IF stripped # <<>> /\ ~startswith(stripped, <<"#">>)
          THEN {stripped} \cup AllowedIn(Tail(lines))
          ELSE AllowedIn(Tail(lines))

\* Line 147: "allowed or DEFAULT_ALLOWED".
OrNothing(names) == names
OrDefault(names) == IF names = {} THEN DEFAULT_ALLOWED ELSE names

\* Lines 137-147.
get_allowed_commands(file) ==
  IF ~file.exists THEN DEFAULT_ALLOWED
  ELSE OrDefault(AllowedIn(SplitLines(file.text)))

\* Python truth of a string or None, "a or b", and dict.get(key).
Truthy(v) == v # NoneToken /\ v # <<>>
Or(a, b) == IF Truthy(a) THEN a ELSE b
get(d, key) == DictGet(d, key, NoneToken)

\* Lines 376-377.
is_content_cmd(p) ==
  p.command \in CONTENT_COMMANDS /\ Truthy(DictGet(p.params, CONTENT, <<>>))

\* Line 380: the deadline of the primary attempt.
PrimaryTimeoutLong(p) == DEFAULT_TIMEOUT
PrimaryTimeout(p) == IF is_content_cmd(p) THEN CLI_TIMEOUT ELSE DEFAULT_TIMEOUT

\* Line 383: whether a timeout of the primary attempt starts the retry.
RetryAlways(p) == TRUE
Retry(p) == is_content_cmd(p)

\* ------------------------------------------------------- _chunked_retry
\* Line 292.
InitialFileParam(params) ==
  Or(Or(get(params, PATH), get(params, NAME)), get(params, FILE))

\* Lines 297-299: prepends are dispatched last chunk first.
is_prepend(command) == command \in {PREPEND, DAILY_PREPEND}
reversed(seq) == [k \in 1..Len(seq) |-> seq[Len(seq) + 1 - k]]
DispatchOrderAsSplit(command, split) == split
DispatchOrder(command, split) ==
  IF is_prepend(command) THEN reversed(split) ELSE split

\* Lines 303-308.
FollowupAppend(command) == APPEND
followup_cmd(command) ==
  IF is_prepend(command) THEN command
  ELSE IF command \in {DAILY_APPEND, DAILY_PREPEND} THEN DAILY_APPEND
  ELSE APPEND

\* Lines 316-321.
ChunkCmd(command, idx) == IF idx = 0 THEN command ELSE followup_cmd(command)

\* Lines 314, 322-326.
ChunkFlags(flags, idx) ==
  IF idx = 0 THEN flags
  ELSE (flags \cup {INLINE}) \ {OVERWRITE, TEMPLATE, OPEN, NEWTAB}

\* Lines 332-339.
RetargetNothing(chunk_params, params) == chunk_params
Retarget(chunk_params, params) ==
  DictPop(IF DictHas(params, PATH)
          THEN DictSet(chunk_params, PATH, DictGet(params, PATH, <<>>))
          ELSE IF DictHas(params, NAME)
          THEN DictSet(chunk_params, FILE, DictGet(params, NAME, <<>>))
          ELSE IF DictHas(params, FILE)
          THEN DictSet(chunk_params, FILE, DictGet(params, FILE, <<>>))
          ELSE chunk_params,
          NAME)

\* Lines 312-313, 328-339.
ChunkParams(params, command, chunk, idx, fparam) ==
  LET own == DictSet(params, CONTENT, chunk)
  IN IF idx = 0 THEN own
     ELSE IF followup_cmd(command) = APPEND /\ Truthy(fparam)
     THEN Retarget(DictPop(own, TEMPLATE), params)
     ELSE DictPop(own, TEMPLATE)

\* Lines 341-342: the argv of chunk idx, or the ValueError of shlex.split.
ChunkArgv(p, chunk, idx, fparam) ==
  shlex_split(build_command(p.base_cmd, ChunkCmd(p.command, idx),
                            ChunkParams(p.params, p.command, chunk, idx, fparam),
                            ChunkFlags(p.flags, idx)))


\* Lines 348-355: the created path is looked up in the output of chunk 0.
endswith(s, suffix) ==
  Len(s) >= Len(suffix) /\ SubSeq(s, Len(s) - Len(suffix) + 1, Len(s)) = suffix

\* str.splitlines() of a text whose only line breaks are "\n".
splitlines(text) ==
  LET lines == SplitLines(text)
  IN [k \in DOMAIN lines |->
        IF endswith(lines[k], <<"\n">>)
        THEN SubSeq(lines[k], 1, Len(lines[k]) - 1) ELSE lines[k]]

CREATED == <<"C", "r", "e", "a", "t", "e", "d", " ">>
DOT_MD == <<".", "m", "d">>

RECURSIVE Discover(_)
Discover(lines) ==
  IF lines = <<>> THEN NoneToken
  ELSE IF (startswith(Head(lines), CREATED) \/ endswith(Head(lines), DOT_MD))
          /\ strip(replace(Head(lines), CREATED, <<>>)) # <<>>
  THEN strip(replace(Head(lines), CREATED, <<>>))
  ELSE Discover(Tail(lines))

Discovered(command, idx, fparam, output) ==
  IF idx = 0 /\ command \in {CREATE, UNIQUE, BASE_CREATE} /\ ~Truthy(fparam)
     /\ Discover(splitlines(output)) # NoneToken
  THEN Discover(splitlines(output))
  ELSE fparam

\* ------------------------------------------------------ _run_with_output
\* "sub in s"
contains(s, sub) ==
  \E i \in 0..(Len(s) - Len(sub)) : SubSeq(s, i + 1, i + Len(sub)) = sub

LOADING ==
  <<"L", "o", "a", "d", "i", "n", "g">>
APP_PACKAGE ==
  <<"a", "p", "p", " ", "p", "a", "c", "k", "a", "g", "e">>

\* Lines 268-272: the lines that do not hold both markers, joined by "\n".
Noise(l) == contains(l, LOADING) /\ contains(l, APP_PACKAGE)
Filter(text) ==
  join(<<"\n">>, SelectSeq(splitlines(text), LAMBDA l : ~Noise(l)))

\* Lines 274-276: the filtered stdout gets a newline unless it is empty or
\* ends with one.
StdoutPart(stdout) ==
  LET output == Filter(stdout)
  IN IF output # <<>> /\ ~endswith(output, <<"\n">>)
     THEN output \o <<"\n">> ELSE output

\* Lines 277-280: the filtered stderr gets a newline unless it is empty.
StderrPart(stderr) ==
  IF stderr # <<>> /\ Filter(stderr) # <<>>
  THEN Filter(stderr) \o <<"\n">> ELSE <<>>

\* Lines 265-282; the exit code of the call is not read.
run_with_output(stdout, stderr) == StdoutPart(stdout) \o StderrPart(stderr)


\* ---------------------------------------------------------- the Executor
\* What a call that returned wrote to stdout and stderr: nothing, a line
\* of the application between its start-up noise and a warning, and the
\* path of the note it created, in two wordings.
Streams ==
  { [stdout |-> <<>>, stderr |-> <<>>],
    [stdout |-> LOADING \o <<" ">> \o APP_PACKAGE \o <<"\n", "o", "k">>,
     stderr |-> <<"w">>],
    [stdout |-> CREATED \o <<"a", ".", "m", "d", "\n">>, stderr |-> <<>>],
    [stdout |-> <<"C", "r", "e", "a", "t", "e", "d", ":", " ", "a", ".", "m", "d", "\n">>,
     stderr |-> <<>>] }

\* The text of an exception of the Executor other than TimeoutExpired.
EXECUTOR_ERROR == <<"b", "o", "o", "m">>

\* What a call can do: return with its two streams, run past its deadline,
\* or fail otherwise.
Outcomes ==
  {[kind |-> "ok", stdout |-> x.stdout, stderr |-> x.stderr, error |-> <<>>] :
     x \in Streams}
    \cup {[kind |-> "timeout", stdout |-> <<>>, stderr |-> <<>>, error |-> <<>>],
          [kind |-> "error", stdout |-> <<>>, stderr |-> <<>>,
           error |-> EXECUTOR_ERROR]}

\* A call handed to the Executor, and the same call once it ended.
Invocation(argv, timeout) ==
  [argv |-> argv, timeout |-> timeout, outcome |-> "running", output |-> <<>>]
Ended(log, o) ==
  [log EXCEPT ![Len(log)].outcome = o.kind,
              ![Len(log)].output =
                 IF o.kind = "ok" THEN run_with_output(o.stdout, o.stderr)
                 ELSE <<>>]

\* The effect of a call that returned on the note, as the comment at lines
\* 294-296 has it: a prepend inserts at the top, an append at the end, a
\* creation gives the note its content.
Apply(text, argv) ==
  LET pa == parse_obsidian_args(argv)
      c == DictGet(pa.params, CONTENT, <<>>)
  IN IF pa.command \in {APPEND, DAILY_APPEND} THEN text \o c
     ELSE IF pa.command \in {PREPEND, DAILY_PREPEND} THEN c \o text
     ELSE IF pa.command \in {CREATE, UNIQUE, BASE_CREATE} THEN c
     ELSE text

\* What a call that ended did to the note: a call that returned took
\* effect, and a call that timed out or failed is followed by no call that
\* would take an earlier effect back (lines 343, 386-389).
EffectUndone(text, argv, kind) ==
  IF kind = "ok" THEN Apply(text, argv) ELSE Prior
Effect(text, argv, kind) ==
  IF kind = "ok" THEN Apply(text, argv) ELSE text


\* ------------------------------------------------ commands handed over
READ == <<"r", "e", "a", "d">>
SEARCH == <<"s", "e", "a", "r", "c", "h">>
RM == <<"r", "m">>

\* key="value" and a flag in double quotes, as a client types them.
Typed(key, value) == KeyValue([key |-> key, value |-> value])
QuotedFlag(flag) == <<"\"">> \o flag \o <<"\"">>

\* The note is named by path, by name, by file, by all three, by an empty
\* name, or not at all.
TargetArgs ==
  { <<>>, <<Typed(PATH, <<"p">>)>>, <<Typed(NAME, <<"n">>)>>,
    <<Typed(FILE, <<"f">>)>>,
    <<Typed(FILE, <<"f">>), Typed(NAME, <<"n">>), Typed(PATH, <<"p">>)>>,
    <<Typed(NAME, <<>>)>> }

\* Nothing more, the overwrite flag, every flag and parameter a
\* continuation drops, and a flag with a space in it.
ExtraArgs ==
  { <<>>,
    <<OVERWRITE>>,
    <<OVERWRITE, OPEN, NEWTAB, TEMPLATE, Typed(TEMPLATE, <<"t">>)>>,
    <<QuotedFlag(<<"x", " ">> \o OVERWRITE)>> }

\* Contents of at most n characters with at most one newline.
ExecContents(n) ==
  UNION {{WithNewlines(k, at) : at \in {{}} \cup {{j} : j \in 1..k}} : k \in 0..n}

\* Every content-bearing subcommand with every content, target and extras.
ContentLines ==
  { join(<<" ">>, <<OBSIDIAN, sub>> \o t \o <<Typed(CONTENT, c)>> \o e) :
      sub \in CONTENT_COMMANDS, t \in TargetArgs,
      c \in ExecContents(MaxContent), e \in ExtraArgs }

\* The bare base command, a subcommand that bears no content without and
\* with a content parameter, a content-bearing subcommand without content,
\* a base command that is not allowed, an unclosed quotation, and the
\* empty and the blank line.
OtherLines ==
  { OBSIDIAN,
    join(<<" ">>, <<OBSIDIAN, READ, Typed(PATH, <<"p">>)>>),
    join(<<" ">>, <<OBSIDIAN, SEARCH, Typed(CONTENT, <<"a", "b", "c">>)>>),
    join(<<" ">>, <<OBSIDIAN, CREATE, Typed(PATH, <<"p">>)>>),
    join(<<" ">>, <<RM, <<"x">>>>),
    join(<<" ">>, <<OBSIDIAN, <<"'", "x">>>>),
    <<>>,
    <<" ">> }

CommandLines == ContentLines \cup OtherLines

\* What execute_command leaves alone.
execFrame == <<authVars, httpVars, rtVars, batchVars, filterVars, serveVars, vaultVars, content,
               chunk_size>>

\* The texts execute_command returns in place of an output (lines 365, 368,
\* 387, 389, 390 and 392); e is the text of the exception.
Message(kind, e) ==
  IF kind = "invalid_syntax" THEN
    <<"[", "e", "r", "r", "o", "r", "]", " ", "I", "n", "v", "a", "l",
      "i", "d", " ", "c", "o", "m", "m", "a", "n", "d", " ", "s", "y",
      "n", "t", "a", "x", ":", " ">>
      \o e \o <<"\n">>
  ELSE IF kind = "empty" THEN
    <<"[", "e", "r", "r", "o", "r", "]", " ", "E", "m", "p", "t", "y",
      " ", "c", "o", "m", "m", "a", "n", "d", "\n">>
  ELSE IF kind = "timeout" THEN
    <<"[", "e", "r", "r", "o", "r", "]", " ", "C", "o", "m", "m", "a",
      "n", "d", " ", "t", "i", "m", "e", "d", " ", "o", "u", "t", " ",
      "a", "f", "t", "e", "r", " ", "3", "0", "s", "\n">>
  ELSE IF kind = "retry_timeout" THEN
    <<"[", "e", "r", "r", "o", "r", "]", " ", "C", "o", "m", "m", "a",
      "n", "d", " ", "t", "i", "m", "e", "d", " ", "o", "u", "t", " ",
      "a", "f", "t", "e", "r", " ", "c", "h", "u", "n", "k", "e", "d",
      " ", "r", "e", "t", "r", "y", "\n">>
  ELSE IF kind = "retry_failed" THEN
    <<"[", "e", "r", "r", "o", "r", "]", " ", "C", "L", "I", " ", "t",
      "i", "m", "e", "d", " ", "o", "u", "t", " ", "a", "n", "d", " ",
      "c", "h", "u", "n", "k", "e", "d", " ", "r", "e", "t", "r", "y",
      " ", "f", "a", "i", "l", "e", "d", ":", " ">>
      \o e \o <<"\n">>
  ELSE
    <<"[", "e", "r", "r", "o", "r", "]", " ">>
      \o e \o <<"\n">>

\* Line 372: the text returned for a base command that is not allowed.
NotAllowed(base_cmd, names) ==
  <<"[", "e", "r", "r", "o", "r", "]", " ", "C", "o", "m", "m", "a", "n",
    "d", " ", "'">>
    \o base_cmd \o
  <<"'", " ", "n", "o", "t", " ", "a", "l", "l", "o", "w", "e", "d", ".",
    " ", "A", "l", "l", "o", "w", "e", "d", ":", " ">>
    \o join(<<",", " ">>, sorted(names)) \o <<"\n">>

\* Lines 362-381: the command is split and checked; if it passes, the
\* primary attempt is handed to the Executor.
RejectionWithoutAllowList(sp, names) ==
  IF ~sp.ok THEN "invalid_syntax"
  ELSE IF sp.argv = <<>> THEN "empty"
  ELSE "none"
Rejection(sp, names) ==
  IF ~sp.ok THEN "invalid_syntax"
  ELSE IF sp.argv = <<>> THEN "empty"
  ELSE IF sp.argv[1] \notin names THEN "not_allowed"
  ELSE "none"

Submit(c) ==
  /\ epc = "idle"
  /\ cmd' = c
  /\ LET sp == shlex_split(c)
         names == get_allowed_commands(ALLOWED_COMMANDS_FILE)
     IN /\ allowed' = IF sp.ok /\ sp.argv # <<>> THEN names ELSE allowed
        /\ IF Rejection(sp, names) # "none"
           THEN /\ epc' = "done"
                /\ result' =
                     [kind |-> Rejection(sp, names),
                      output |-> IF Rejection(sp, names) = "not_allowed"
                                 THEN NotAllowed(sp.argv[1], names)
                                 ELSE Message(Rejection(sp, names), sp.error)]
                /\ UNCHANGED <<parsed, invoked>>
           ELSE LET pa == parse_obsidian_args(sp.argv)
                    p == [base_cmd |-> sp.argv[1], command |-> pa.command,
                          params |-> pa.params, flags |-> pa.flags]
                IN /\ epc' = "primary"
                   /\ parsed' = p
                   /\ invoked' = <<Invocation(sp.argv, PrimaryTimeout(p))>>
                   /\ UNCHANGED result
  /\ UNCHANGED <<execFrame, chunks, chunk_index, file_param, target>>

\* Lines 311-343: chunk idx is built and handed to the Executor; a command
\* line that does not split again ends the retry.
StartChunk(log, order, idx, fparam) ==
  LET a == ChunkArgv(parsed, order[idx + 1], idx, fparam)
  IN /\ chunks' = order
     /\ chunk_index' = idx
     /\ file_param' = fparam
     /\ IF a.ok
        THEN /\ invoked' = Append(log, Invocation(a.argv, CLI_TIMEOUT))
             /\ epc' = "chunk"
             /\ UNCHANGED result
        ELSE /\ invoked' = log
             /\ epc' = "done"
             /\ result' = [kind |-> "retry_failed",
                           output |-> Message("retry_failed", a.error)]

\* Lines 381-392: the primary attempt ends.
PrimaryReturns(o) ==
  /\ epc = "primary"
  /\ IF o.kind = "timeout" /\ Retry(parsed)
     THEN /\ StartChunk(Ended(invoked, o),
                        DispatchOrder(parsed.command,
                          split_content(DictGet(parsed.params, CONTENT, <<>>),
                                        CHUNK_SIZE)),
                        0, InitialFileParam(parsed.params))
          /\ UNCHANGED target
     ELSE /\ epc' = "done"
          /\ invoked' = Ended(invoked, o)
          /\ result' = IF o.kind = "ok"
                       THEN [kind |-> "output",
                             output |-> run_with_output(o.stdout, o.stderr)]
                       ELSE [kind |-> o.kind, output |-> Message(o.kind, o.error)]
          /\ target' = Effect(target, invoked[1].argv, o.kind)
          /\ UNCHANGED <<chunks, chunk_index, file_param>>
  /\ UNCHANGED <<execFrame, cmd, parsed, allowed>>

\* Lines 386-389: how a retry ends when one of its calls does not return.
RetryFailureAsPlain(kind) == kind
RetryFailure(kind) ==
  IF kind = "timeout" THEN "retry_timeout" ELSE "retry_failed"

\* Line 357: the outputs of the chunk calls, joined.
RetryOutputLast(log) == log[Len(log)].output
RetryOutput(log) == Concat([k \in 1..(Len(log) - 1) |-> log[k + 1].output])

\* Lines 343-357, 386-389: a chunk call ends.
ChunkReturns(o) ==
  /\ epc = "chunk"
  /\ IF o.kind = "ok" /\ chunk_index + 1 < Len(chunks)
     THEN StartChunk(Ended(invoked, o), chunks, chunk_index + 1,
                     Discovered(parsed.command, chunk_index, file_param,
                                run_with_output(o.stdout, o.stderr)))
     ELSE /\ epc' = "done"
          /\ invoked' = Ended(invoked, o)
          /\ result' = IF o.kind = "ok"
                       THEN [kind |-> "output", output |-> RetryOutput(Ended(invoked, o))]
                       ELSE [kind |-> RetryFailure(o.kind),
                             output |-> Message(RetryFailure(o.kind), o.error)]
          /\ file_param' = IF o.kind = "ok"
                           THEN Discovered(parsed.command, chunk_index, file_param,
                                           run_with_output(o.stdout, o.stderr))
                           ELSE file_param
          /\ UNCHANGED <<chunks, chunk_index>>
  /\ target' = Effect(target, invoked[Len(invoked)].argv, o.kind)
  /\ UNCHANGED <<execFrame, cmd, parsed, allowed>>

NextExec ==
  \/ \E c \in CommandLines : Submit(c)
  \/ \E o \in Outcomes : PrimaryReturns(o)
  \/ \E o \in Outcomes : ChunkReturns(o)

SpecExec == InitWith({NoFile}) /\ [][NextExec]_vars


\* ------------------------------------------- the command loop of do_POST
\* An entry of the "commands" list that is no string.
NotAString == NoneToken

\* Entries of a body: an unclosed quotation, a base command the default
\* allow-list does not have, an append of two chunks, and a number.
BatchEntries ==
  { join(<<" ">>, <<OBSIDIAN, <<"'", "x">>>>),
    join(<<" ">>, <<RM, <<"x">>>>),
    join(<<" ">>, <<OBSIDIAN, APPEND, Typed(CONTENT, <<"a", "b", "c">>)>>),
    NotAString }
Batches == UNION {[1..k -> BatchEntries] : k \in 1..MaxCommands}

\* Allow-list files: none, one of a comment and a blank line, and one that
\* names rm and then, between blanks, ls.
AllowFiles ==
  { NoFile,
    [exists |-> TRUE, text |-> <<"#", " ", "c", "\n", "\n">>],
    [exists |-> TRUE,
     text |-> RM \o <<"\n", " ", "l", "s", " ", "\n">>] }

\* The calls of a batch return a line and a warning, time out, or fail.
BatchOutcomes == {o \in Outcomes : o.kind = "ok" => o.stderr # <<>>}

\* Lines 452-459: an authenticated POST came with a list of commands.
ReceiveCommands(body) ==
  /\ commands = <<>>
  /\ commands' = body
  /\ UNCHANGED <<authVars, httpVars, rtVars, splitVars, execVars, filterVars, serveVars, vaultVars,
                 ALLOWED_COMMANDS_FILE, position, output_parts, response>>

\* Lines 461-464: the loop takes the next entry; one that is no string is
\* passed over, a string is handed to execute_command.
NextCommand ==
  /\ position < Len(commands)
  /\ epc = "idle"
  /\ IF commands[position + 1] = NotAString
     THEN /\ position' = position + 1
          /\ UNCHANGED <<authVars, httpVars, rtVars, splitVars, execVars,
                         filterVars, serveVars, vaultVars, ALLOWED_COMMANDS_FILE, commands,
                         output_parts, response>>
     ELSE Submit(commands[position + 1])

\* Line 464: execute_command returned; its text joins output_parts.
CommandReturnsAborting ==
  /\ commands # <<>>
  /\ epc = "done"
  /\ output_parts' = Append(output_parts, result.output)
  /\ position' = IF result.kind = "output" THEN position + 1 ELSE Len(commands)
  /\ cmd' = <<>>
  /\ epc' = "idle"
  /\ parsed' = NoParsed
  /\ chunk_index' = 0
  /\ file_param' = NoneToken
  /\ invoked' = <<>>
  /\ result' = NoResult
  /\ allowed' = {}
  /\ chunks' = <<>>
  /\ UNCHANGED <<authVars, httpVars, rtVars, filterVars, serveVars, vaultVars, content, chunk_size,
                 target, ALLOWED_COMMANDS_FILE, commands, response>>
CommandReturns ==
  /\ commands # <<>>
  /\ epc = "done"
  /\ output_parts' = Append(output_parts, result.output)
  /\ position' = position + 1
  /\ cmd' = <<>>
  /\ epc' = "idle"
  /\ parsed' = NoParsed
  /\ chunk_index' = 0
  /\ file_param' = NoneToken
  /\ invoked' = <<>>
  /\ result' = NoResult
  /\ allowed' = {}
  /\ chunks' = <<>>
  /\ UNCHANGED <<authVars, httpVars, rtVars, filterVars, serveVars, vaultVars, content, chunk_size,
                 target, ALLOWED_COMMANDS_FILE, commands, response>>

\* Lines 466-470: the parts are joined and sent with status 200.
Reply ==
  /\ commands # <<>>
  /\ position = Len(commands)
  /\ epc = "idle"
  /\ response = NoResponse
  /\ response' = [status |-> 200, text |-> Concat(output_parts)]
  /\ UNCHANGED <<authVars, httpVars, rtVars, splitVars, execVars, filterVars, serveVars, vaultVars,
                 ALLOWED_COMMANDS_FILE, commands, position, output_parts>>

\* The allow-list file is edited, removed or created while the service
\* runs.
EditAllowed(file) ==
  /\ response = NoResponse
  /\ file # ALLOWED_COMMANDS_FILE
  /\ ALLOWED_COMMANDS_FILE' = file
  /\ UNCHANGED <<authVars, httpVars, rtVars, splitVars, execVars, filterVars, serveVars, vaultVars,
                 commands, position, output_parts, response>>

InitBatch ==
  /\ StoreInit({NoFile})
  /\ HttpIdle
  /\ RtIdle
  /\ SplitIdle
  /\ ExecIdle
  /\ FilterIdle
  /\ ServeIdle
  /\ VaultIdle
  /\ LoopIdle
  /\ ALLOWED_COMMANDS_FILE \in AllowFiles

NextBatch ==
  \/ \E body \in Batches : ReceiveCommands(body)
  \/ NextCommand
  \/ \E o \in BatchOutcomes : PrimaryReturns(o)
  \/ \E o \in BatchOutcomes : ChunkReturns(o)
  \/ CommandReturns
  \/ Reply
  \/ \E file \in AllowFiles : EditAllowed(file)

SpecBatch == InitBatch /\ [][NextBatch]_vars


\* ------------------------------------------- claims on execute_command
\* The value of the last content=... token of an argv, "" when it has none.
ContentOf(argv) ==
  LET at == {k \in 3..Len(argv) :
               startswith(argv[k], CONTENT \o <<"=">>)}
  IN IF at = {} THEN <<>>
     ELSE LET last == CHOOSE k \in at : \A j \in at : j <= k
          IN SubSeq(argv[last], Len(CONTENT) + 2, Len(argv[last]))

\* The command qualifies for the retry: a content-bearing subcommand with
\* a non-empty content.
Qualifies(argv) ==
  /\ Len(argv) >= 2
  /\ argv[2] \in {CREATE, APPEND, PREPEND, DAILY_APPEND, DAILY_PREPEND,
                  UNIQUE, BASE_CREATE}
  /\ ContentOf(argv) # <<>>

\* C15: a second Executor call is made only after the primary call timed
\* out on a qualifying command; a command that does not qualify gets
\* exactly one Executor call, and when that call times out the command
\* ends with the plain timeout message.
C15_RetryOnlyWhenQualified ==
  invoked # <<>> =>
    /\ Len(invoked) >= 2 =>
         invoked[1].outcome = "timeout" /\ Qualifies(invoked[1].argv)
    /\ ~Qualifies(invoked[1].argv) =>
         /\ Len(invoked) = 1
         /\ invoked[1].outcome = "timeout" =>
              epc = "done" /\ result.kind = "timeout"

\* A content-bearing subcommand with an empty content timed out and ended
\* with the plain timeout message after its one call.
C15_Witness ==
  /\ epc = "done"
  /\ Len(invoked) = 1
  /\ Len(invoked[1].argv) >= 2
  /\ invoked[1].argv[2] \in CONTENT_COMMANDS
  /\ ~Qualifies(invoked[1].argv)
  /\ invoked[1].outcome = "timeout"
  /\ result.kind = "timeout"

\* C16: every call of a qualifying command, the primary one and each
\* chunk, has the 5 s deadline; the call of any other command has the 30 s
\* deadline.
C16_Deadlines ==
  \A k \in DOMAIN invoked :
    invoked[k].timeout = IF Qualifies(invoked[1].argv) THEN 5 ELSE 30

\* A retry is at its third chunk: four calls, each with the 5 s deadline.
C16_Witness ==
  /\ Len(invoked) = 4
  /\ \A k \in DOMAIN invoked : invoked[k].timeout = 5


\* The parameters of an argv other than content, as a set of pairs.
OtherParams(argv) ==
  LET ps == parse_obsidian_args(argv).params
  IN {ps[k] : k \in {j \in DOMAIN ps : ps[j].key # CONTENT}}

\* C17: the first call of a retry has the subcommand, the flags and the
\* parameters of the primary call; only its content differs, which is the
\* first chunk in dispatch order.
C17_FirstChunkReplaysOriginal ==
  Len(invoked) >= 2 =>
    /\ invoked[2].argv[1] = invoked[1].argv[1]
    /\ invoked[2].argv[2] = invoked[1].argv[2]
    /\ parse_obsidian_args(invoked[2].argv).flags
         = parse_obsidian_args(invoked[1].argv).flags
    /\ OtherParams(invoked[2].argv) = OtherParams(invoked[1].argv)
    /\ ContentOf(invoked[2].argv) = chunks[1]

\* The follow-up subcommand the claim gives for a subcommand.
FollowupOf(sub) ==
  IF sub \in {PREPEND, DAILY_PREPEND} THEN sub
  ELSE IF sub = DAILY_APPEND THEN DAILY_APPEND
  ELSE APPEND

\* C18: every call of a retry after the first has the follow-up
\* subcommand of the original one: prepend and daily:prepend stay,
\* daily:append stays, create, append, unique and base:create give append.
C18_FollowupSubcommand ==
  \A k \in 3..Len(invoked) :
    invoked[k].argv[2] = FollowupOf(invoked[1].argv[2])

\* A daily:append is at its third chunk, and so past two continuations
\* with daily:append.
C18_Witness ==
  /\ Len(invoked) = 4
  /\ invoked[1].argv[2] = DAILY_APPEND
  /\ invoked[3].argv[2] = DAILY_APPEND
  /\ invoked[4].argv[2] = DAILY_APPEND

\* C19: every call of a retry after the first has the inline flag, none
\* of the flags overwrite, template, open and newtab, and no template
\* parameter.
C19_ContinuationFlags ==
  \A k \in 3..Len(invoked) :
    LET pa == parse_obsidian_args(invoked[k].argv)
    IN /\ INLINE \in pa.flags
       /\ pa.flags \cap {OVERWRITE, TEMPLATE, OPEN, NEWTAB} = {}
       /\ ~DictHas(pa.params, TEMPLATE)

\* C20: the i-th call of a retry carries chunk N-1-i of the split for
\* prepend and daily:prepend and chunk i otherwise; and once every call
\* has returned, the note holds the whole content in order: on top of what
\* it held for a prepend, below it for an append, alone for a creation.
C20_DispatchOrder ==
  Len(invoked) >= 2 =>
    LET sub == invoked[1].argv[2]
        whole == ContentOf(invoked[1].argv)
        split == split_content(whole, CHUNK_SIZE)
        n == Len(split)
    IN /\ \A k \in 0..(Len(invoked) - 2) :
            ContentOf(invoked[k + 2].argv) =
              IF sub \in {PREPEND, DAILY_PREPEND} THEN split[n - k]
              ELSE split[k + 1]
       /\ (epc = "done" /\ result.kind = "output") =>
            /\ Len(invoked) = n + 1
            /\ target = IF sub \in {PREPEND, DAILY_PREPEND} THEN whole \o Prior
                        ELSE IF sub \in {APPEND, DAILY_APPEND} THEN Prior \o whole
                        ELSE whole

\* A prepend of three chunks went through: the last chunk was sent first
\* and the note holds the content on top of what it held.
C20_Witness ==
  /\ epc = "done"
  /\ result.kind = "output"
  /\ Len(invoked) = 4
  /\ invoked[1].argv[2] = PREPEND
  /\ ContentOf(invoked[2].argv) = split_content(ContentOf(invoked[1].argv), CHUNK_SIZE)[3]
  /\ target = ContentOf(invoked[1].argv) \o Prior


\* The parameters of an argv, and whether it names the note by a path, name
\* or file that is not empty.
ParamsOf(argv) == parse_obsidian_args(argv).params
NamesTarget(argv) ==
  \E key \in {PATH, NAME, FILE} :
    DictHas(ParamsOf(argv), key) /\ DictGet(ParamsOf(argv), key, <<>>) # <<>>

\* What C21 asks of a continuation with parameters c for an original with
\* parameters o.
Targeted(o, c) ==
  IF DictHas(o, PATH)
  THEN DictHas(c, PATH) /\ DictGet(c, PATH, <<>>) = DictGet(o, PATH, <<>>)
  ELSE IF DictHas(o, NAME)
  THEN /\ DictHas(c, FILE)
       /\ DictGet(c, FILE, <<>>) = DictGet(o, NAME, <<>>)
       /\ ~DictHas(c, NAME)
  ELSE DictHas(o, FILE) =>
         DictHas(c, FILE) /\ DictGet(c, FILE, <<>>) = DictGet(o, FILE, <<>>)

\* C21 as stated: every continuation append call keeps the path of the
\* original; without a path it carries the original name as file= and no
\* name; without either it carries the original file parameter.
C21_FileTargetingAsStated ==
  \A k \in 3..Len(invoked) :
    invoked[k].argv[2] = APPEND =>
      Targeted(ParamsOf(invoked[1].argv), ParamsOf(invoked[k].argv))

\* The path, name and file parameters of an argv.
TargetParams(argv) ==
  {kv \in OtherParams(argv) : kv.key \in {PATH, NAME, FILE}}

\* C21, amended: the same whenever a target is known, which is when the
\* original names the note by a path, name or file that is not empty or a
\* created path was found in the output of the first chunk; when no target
\* is known a continuation append call carries the path, name and file
\* parameters of the original as they were, an empty name staying a name
\* parameter.
C21_FileTargeting ==
  \A k \in 3..Len(invoked) :
    invoked[k].argv[2] = APPEND =>
      /\ NamesTarget(invoked[1].argv) => Truthy(file_param)
      /\ IF Truthy(file_param)
         THEN Targeted(ParamsOf(invoked[1].argv), ParamsOf(invoked[k].argv))
         ELSE TargetParams(invoked[k].argv) = TargetParams(invoked[1].argv)

\* A creation by name is at a continuation, which carries the name as
\* file= and no name parameter.
C21_Witness ==
  /\ Len(invoked) >= 3
  /\ invoked[1].argv[2] = CREATE
  /\ ~DictHas(ParamsOf(invoked[1].argv), PATH)
  /\ DictGet(ParamsOf(invoked[1].argv), NAME, <<>>) = <<"n">>
  /\ invoked[3].argv[2] = APPEND
  /\ DictGet(ParamsOf(invoked[3].argv), FILE, <<>>) = <<"n">>
  /\ ~DictHas(ParamsOf(invoked[3].argv), NAME)


\* The path the claims read off an output: the rest of the first line that
\* begins with "Created ", or the first line that ends in ".md", whichever
\* comes first; NoneToken when the output has no such line.
RECURSIVE ReportedIn(_)
ReportedIn(lines) ==
  IF lines = <<>> THEN NoneToken
  ELSE IF startswith(Head(lines), CREATED)
  THEN SubSeq(Head(lines), Len(CREATED) + 1, Len(Head(lines)))
  ELSE IF endswith(Head(lines), DOT_MD) THEN Head(lines)
  ELSE ReportedIn(Tail(lines))
Reported(output) == ReportedIn(splitlines(output))

\* A call names the note d by its file= or its path= parameter.
Targets(argv, d) ==
  \/ DictHas(ParamsOf(argv), FILE) /\ DictGet(ParamsOf(argv), FILE, <<>>) = d
  \/ DictHas(ParamsOf(argv), PATH) /\ DictGet(ParamsOf(argv), PATH, <<>>) = d

\* C22: when a create, unique or base:create came without path, name and
\* file, every continuation call names the path reported in the output of
\* the first chunk call, and has no file parameter when none is reported.
C22_ContinuationTargetsDiscovered ==
  \A k \in 3..Len(invoked) :
    (/\ invoked[1].argv[2] \in {CREATE, UNIQUE, BASE_CREATE}
     /\ TargetParams(invoked[1].argv) = {}) =>
      IF Reported(invoked[2].output) # NoneToken
      THEN Targets(invoked[k].argv, Reported(invoked[2].output))
      ELSE ~DictHas(ParamsOf(invoked[k].argv), FILE)

\* C23: when the first chunk call of a create reports another path than
\* the one asked for, every continuation call names the reported path.
C23_ContinuationTargetsCreated ==
  \A k \in 3..Len(invoked) :
    (/\ invoked[1].argv[2] = CREATE
     /\ DictHas(ParamsOf(invoked[1].argv), PATH)
     /\ Reported(invoked[2].output) # NoneToken
     /\ Reported(invoked[2].output) # DictGet(ParamsOf(invoked[1].argv), PATH, <<>>)) =>
      Targets(invoked[k].argv, Reported(invoked[2].output))


\* The wordings C24 tells apart.
TimedOutAfterRetry ==
  <<"t", "i", "m", "e", "d", " ", "o", "u", "t", " ", "a", "f", "t", "e",
    "r", " ", "c", "h", "u", "n", "k", "e", "d", " ", "r", "e", "t", "r",
    "y">>
RetryFailedWording ==
  <<"c", "h", "u", "n", "k", "e", "d", " ", "r", "e", "t", "r", "y", " ",
    "f", "a", "i", "l", "e", "d">>
PlainTimeout ==
  <<"C", "o", "m", "m", "a", "n", "d", " ", "t", "i", "m", "e", "d", " ",
    "o", "u", "t", " ", "a", "f", "t", "e", "r", " ", "3", "0", "s">>

\* C24: a chunk call that timed out or failed is the last call of the
\* command, which has ended: with the "timed out after chunked retry"
\* text for a timeout, with the "chunked retry failed" text and the cause
\* otherwise, and never with the text of a plain timeout.
C24_RetryFailureIsTerminal ==
  \A k \in 2..Len(invoked) :
    invoked[k].outcome \in {"timeout", "error"} =>
      /\ k = Len(invoked)
      /\ epc = "done"
      /\ \A j \in 2..(k - 1) : invoked[j].outcome = "ok"
      /\ ~contains(result.output, PlainTimeout)
      /\ IF invoked[k].outcome = "timeout"
         THEN /\ contains(result.output, TimedOutAfterRetry)
              /\ ~contains(result.output, RetryFailedWording)
         ELSE /\ contains(result.output, RetryFailedWording)
              /\ contains(result.output, EXECUTOR_ERROR)
              /\ ~contains(result.output, TimedOutAfterRetry)

\* The second of three chunk calls timed out: the command ended there,
\* with the third chunk never sent.
C24_Witness ==
  /\ epc = "done"
  /\ Len(invoked) = 3
  /\ Len(chunks) = 3
  /\ invoked[3].outcome = "timeout"
  /\ contains(result.output, TimedOutAfterRetry)


\* The note after the first m chunks of a dispatch order took effect.
AppliedTarget(sub, order, m) ==
  IF sub \in {PREPEND, DAILY_PREPEND}
  THEN Concat([j \in 1..m |-> order[m + 1 - j]]) \o Prior
  ELSE IF sub \in {APPEND, DAILY_APPEND}
  THEN Prior \o Concat(SubSeq(order, 1, m))
  ELSE IF m = 0 THEN Prior ELSE Concat(SubSeq(order, 1, m))

\* C25: the chunk calls are the chunks of the dispatch order, one call
\* each, in that order, with the original or the follow-up subcommand and
\* no other call between or after them; the calls that returned are a
\* prefix of them, and the note holds exactly their effects, also after a
\* later chunk call timed out or failed.
C25_NoRollback ==
  Len(invoked) >= 2 =>
    LET sub == invoked[1].argv[2]
        split == split_content(ContentOf(invoked[1].argv), CHUNK_SIZE)
        order == IF sub \in {PREPEND, DAILY_PREPEND}
                 THEN [j \in 1..Len(split) |-> split[Len(split) + 1 - j]]
                 ELSE split
        applied == {k \in 2..Len(invoked) : invoked[k].outcome = "ok"}
    IN /\ Len(invoked) - 1 <= Len(order)
       /\ \A k \in 2..Len(invoked) :
            /\ ContentOf(invoked[k].argv) = order[k - 1]
            /\ invoked[k].argv[2] = IF k = 2 THEN sub ELSE FollowupOf(sub)
       /\ applied = 2..(Cardinality(applied) + 1)
       /\ target = AppliedTarget(sub, order, Cardinality(applied))

\* The third chunk call of an append timed out: the note holds what it
\* held and the first two chunks, which were sent once each.
C25_Witness ==
  /\ epc = "done"
  /\ Len(invoked) = 4
  /\ invoked[1].argv[2] = APPEND
  /\ invoked[4].outcome = "timeout"
  /\ target = Prior \o chunks[1] \o chunks[2]
  /\ chunks[1] \o chunks[2] # <<>>


\* The marker of a text returned in place of an output.
ErrorMarker ==
  <<"[", "e", "r", "r", "o", "r", "]">>

\* C26: when every chunk call of a retry returned, the text of the command
\* is the outputs of the chunk calls one after the other in the order of
\* the calls, without an error marker.
C26_RetryReturnsChunkOutputs ==
  (/\ epc = "done"
   /\ Len(invoked) >= 2
   /\ \A k \in 2..Len(invoked) : invoked[k].outcome = "ok") =>
    /\ Len(invoked) = Len(chunks) + 1
    /\ result.output = Concat([k \in 1..Len(chunks) |-> invoked[k + 1].output])
    /\ ~contains(result.output, ErrorMarker)

\* A retry of two chunk calls went through, the first call reporting the
\* created note and the second a line and a warning: the command returns
\* both outputs in that order.
C26_Witness ==
  /\ epc = "done"
  /\ Len(invoked) = 3
  /\ invoked[2].outcome = "ok"
  /\ invoked[3].outcome = "ok"
  /\ invoked[2].output = CREATED \o <<"a", ".", "m", "d", "\n">>
  /\ invoked[3].output = <<"o", "k", "\n", "w", "\n">>
  /\ result.output = invoked[2].output \o invoked[3].output


\* The splitter comes to an end on every content and every chunk size of
\* the model, with no more chunks than the content has characters and, but
\* for the empty content, with no empty chunk.
SplitterEnds ==
  \A c \in Contents(MaxSplitContent), n \in 1..MaxChunkSize :
    LET s == split_content(c, n)
    IN /\ Len(s) >= 1
       /\ c # <<>> => Len(s) <= Len(c) /\ \A i \in DOMAIN s : s[i] # <<>>

\* C39: the splitter ends on every content and every positive chunk size
\* and gives no empty chunk for a content that is not empty; so
\* execute_command makes at most one call of the Executor more than the
\* content has chunks, each call of the retry with a chunk that is not
\* empty.
C39_CallsBounded ==
  /\ SplitterEnds
  /\ Len(invoked) >= 1 =>
       LET split == split_content(ContentOf(invoked[1].argv), CHUNK_SIZE)
       IN /\ Len(invoked) <= 1 + Len(split)
          /\ \A k \in 2..Len(invoked) : ContentOf(invoked[k].argv) # <<>>

\* A creation with a content of three chunks went through its retry: four
\* calls were made.
C39_Witness ==
  /\ epc = "done"
  /\ Len(invoked) = 4
  /\ invoked[1].argv[2] = CREATE
  /\ Len(split_content(ContentOf(invoked[1].argv), CHUNK_SIZE)) = 3
  /\ invoked[4].outcome = "ok"



\* ------------------------------------------------ claims on the allow-list
\* a comes before b in the order of sorted(): by the code points of the
\* first characters that differ, a prefix first.
Precedes(a, b) ==
  \E i \in 1..(Len(b)) :
    /\ SubSeq(a, 1, Min(i - 1, Len(a))) = SubSeq(b, 1, i - 1)
    /\ Len(a) >= i - 1
    /\ (Len(a) = i - 1 \/ ord(a[i]) < ord(b[i]))

\* The names of a set in that order.
Ascending(names) ==
  CHOOSE seq \in [1..Cardinality(names) -> names] :
    \A i, j \in DOMAIN seq : i < j => Precedes(seq[i], seq[j])

NotAllowedWording ==
  <<"n", "o", "t", " ", "a", "l", "l", "o", "w", "e", "d">>

\* C27: a command line that splits into tokens of which the first is not
\* in the allow-list ends without a call of the Executor, with a text
\* that has "not allowed" in it and ends with the names of the allow-list
\* in sorted order.
C27_NotAllowedRejected ==
  LET sp == shlex_split(cmd)
  IN (epc # "idle" /\ sp.ok /\ sp.argv # <<>> /\ sp.argv[1] \notin allowed) =>
       /\ epc = "done"
       /\ invoked = <<>>
       /\ contains(result.output, NotAllowedWording)
       /\ endswith(result.output,
                   join(<<",", " ">>, Ascending(allowed)) \o <<"\n">>)

\* With rm and ls allowed, in that order in the file, an obsidian command
\* was turned down with the names as "ls, rm".
C27_Witness ==
  /\ epc = "done"
  /\ result.kind = "not_allowed"
  /\ startswith(cmd, OBSIDIAN)
  /\ invoked = <<>>
  /\ allowed = {RM, <<"l", "s">>}
  /\ endswith(result.output, <<"l", "s", ",", " ", "r", "m", "\n">>)


\* The lines of a file that are neither blank nor comments, without the
\* blanks around them; {"obsidian"} for no file and for no such line.
Listed(file) ==
  LET lines == SplitLines(file.text)
      names == {strip(lines[k]) : k \in DOMAIN lines}
                 \ ({<<>>} \cup {n \in {strip(lines[k]) : k \in DOMAIN lines} :
                                   n # <<>> /\ n[1] = "#"})
  IN IF ~file.exists \/ names = {} THEN {OBSIDIAN} ELSE names

\* C28: whenever execute_command checks a command against the allow-list,
\* the list is what the file holds at that moment: its lines that are
\* neither blank nor comments, and {"obsidian"} when the file is absent or
\* has no such line; the list is never empty.
C28_AllowListFromFile ==
  [][(/\ epc = "idle"
      /\ epc' # "idle"
      /\ shlex_split(cmd').ok
      /\ shlex_split(cmd').argv # <<>>) =>
       /\ allowed' = Listed(ALLOWED_COMMANDS_FILE)
       /\ allowed' # {}]_vars

\* The first rm of a body was turned down, the file was edited, and
\* the second rm, checked against the new list, is with the Executor.
C28_Witness ==
  /\ Len(commands) = 2
  /\ commands[1] = commands[2]
  /\ position = 1
  /\ Len(output_parts) = 1
  /\ contains(output_parts[1], NotAllowedWording)
  /\ epc = "primary"
  /\ invoked[1].argv[1] = RM
  /\ allowed = {RM, <<"l", "s">>}


\* ------------------------------------------------------ claims on a batch
\* The entries among the first n of a body that are strings, in order.
StringsAmong(body, n) ==
  SelectSeq(SubSeq(body, 1, n), LAMBDA entry : entry # NotAString)

InvalidSyntaxWording ==
  <<"I", "n", "v", "a", "l", "i", "d", " ", "c", "o", "m", "m", "a", "n",
    "d", " ", "s", "y", "n", "t", "a", "x">>

StreamLines ==
  { <<>>, <<"a">>,
    LOADING \o <<" ">> \o APP_PACKAGE,
    APP_PACKAGE \o LOADING,
    LOADING,
    APP_PACKAGE }

\* The streams of at most n lines, the last line with or without its
\* newline.
StreamTexts(n) ==
  UNION {{join(<<"\n">>, ls) \o tail : ls \in [1..k -> StreamLines],
                                        tail \in {<<>>, <<"\n">>}} : k \in 0..n}

\* A call returned its two streams and its exit code to _run_with_output.
InitFilter ==
  /\ StoreInit({NoFile})
  /\ HttpIdle
  /\ RtIdle
  /\ SplitIdle
  /\ ExecIdle
  /\ BatchIdle
  /\ ServeIdle
  /\ VaultIdle
  /\ completed \in [stdout : StreamTexts(MaxStreamLines),
                     stderr : StreamTexts(1),
                     returncode : {0, 1}]
  /\ filtered = NoneToken

\* Lines 265-282.
RunWithOutput ==
  /\ filtered = NoneToken
  /\ filtered' = run_with_output(completed.stdout, completed.stderr)
  /\ UNCHANGED <<authVars, httpVars, rtVars, splitVars, execVars, batchVars,
                 serveVars, vaultVars, completed>>

NextFilter == RunWithOutput

SpecFilter == InitFilter /\ [][NextFilter]_vars

\* The lines of a stream that do not hold both markers, each followed by
\* a newline but the last.
RECURSIVE KeptLines(_)
KeptLines(lines) ==
  IF lines = <<>> THEN <<>>
  ELSE IF contains(Head(lines), LOADING) /\ contains(Head(lines), APP_PACKAGE)
  THEN KeptLines(Tail(lines))
  ELSE <<Head(lines)>> \o KeptLines(Tail(lines))
Kept(stream) == join(<<"\n">>, KeptLines(splitlines(stream)))

\* A filtered stream, ended by a newline if it is not empty.
Terminated(text) == IF text = <<>> THEN <<>> ELSE text \o <<"\n">>

\* C30: the text returned for a call is the filtered stdout followed by
\* the filtered stderr, each ended by a newline if it is not empty,
\* whatever the exit code.
C30_FilteredStreams ==
  filtered # NoneToken =>
    filtered = Terminated(Kept(completed.stdout))
                 \o Terminated(Kept(completed.stderr))


\* ------------------------------------------------- the threads of main()
\* ThreadingHTTPServer (lines 528-531) hands every request to a thread of
\* its own, which runs the handler from _authenticate to the response.
\* handler[t] is where thread t is: "idle", "auth" (inside authenticate),
\* "granted" (reading the body), "exec" (an Executor call in flight) or
\* "respond" (writing the response).

\* The commands of the requests: each appends a content of its own to
\* the same note.
ServeContents ==
  {<<"a", "b", "c", "d", "e", "f">>, <<"w", "x", "y", "z">>}
ServeLines ==
  { join(<<" ">>, <<OBSIDIAN, APPEND, Typed(PATH, <<"p">>), Typed(CONTENT, c)>>) :
      c \in ServeContents }

\* The calls of the Executor write nothing to their streams.
ServeOutcomes == {o \in Outcomes : o.stdout = <<>> /\ o.stderr = <<>>}

\* The store holds one token, not yet used.
ServeFile == [exists |-> TRUE, text |-> TokA \o <<"\n">>]

\* f with its value at t replaced.
Put(f, t, v) == [f EXCEPT ![t] = v]

serveFrame == <<httpVars, rtVars, splitVars, batchVars, filterVars, vaultVars,
                cmd, epc,
                parsed, chunk_index, file_param, invoked, result, allowed,
                chunks, content, chunk_size>>

\* Lines 397-413: a request with a bearer token arrives and its thread
\* calls authenticate.
Receive(t, tok) ==
  /\ handler[t] = "idle"
  /\ Enter(t, tok)
  /\ handler' = Put(handler, t, "auth")
  /\ UNCHANGED <<serveFrame, run, sent, target>>

\* Lines 398-411: a request without a usable header is answered 401 and
\* authenticate is not called.
Refuse(t) ==
  /\ handler[t] = "idle"
  /\ calls < MaxCalls
  /\ handler' = Put(handler, t, "respond")
  /\ UNCHANGED <<authVars, serveFrame, run, sent, target>>

\* Lines 134, 413-421: authenticate returns; the handler goes on to the
\* body of the request or answers 401.
Returns(t) ==
  /\ handler[t] = "auth"
  /\ Leave(t)
  /\ handler' = Put(handler, t, IF matched[t] THEN "granted" ELSE "respond")
  /\ UNCHANGED <<serveFrame, run, sent, target>>

\* Lines 434-464, 362-381: the body is read and its command is handed to
\* execute_command, which starts the primary attempt.
Dispatch(t, c) ==
  /\ handler[t] = "granted"
  /\ LET sp == shlex_split(c)
         pa == parse_obsidian_args(sp.argv)
     IN /\ Rejection(sp, get_allowed_commands(ALLOWED_COMMANDS_FILE)) = "none"
        /\ run' = Put(run, t,
                      [p |-> [base_cmd |-> sp.argv[1], command |-> pa.command,
                              params |-> pa.params, flags |-> pa.flags],
                       chunks |-> <<>>, idx |-> 0, fparam |-> NoneToken,
                       argv |-> sp.argv])
  /\ handler' = Put(handler, t, "exec")
  /\ UNCHANGED <<authVars, serveFrame, sent, target>>

\* What the call of thread t that ended put into the note.
Sent(t, o) ==
  IF o.kind = "ok"
  THEN Append(sent[t], DictGet(parse_obsidian_args(run[t].argv).params,
                               CONTENT, <<>>))
  ELSE sent[t]

\* Lines 381-392: the primary attempt of thread t ends.
PrimaryEnds(t, o) ==
  /\ handler[t] = "exec"
  /\ run[t].chunks = <<>>
  /\ IF o.kind = "timeout" /\ Retry(run[t].p)
     THEN LET order == DispatchOrder(run[t].p.command,
                         split_content(DictGet(run[t].p.params, CONTENT, <<>>),
                                       CHUNK_SIZE))
              fparam == InitialFileParam(run[t].p.params)
          IN /\ run' = Put(run, t,
                           [run[t] EXCEPT
                              !.chunks = order, !.idx = 0, !.fparam = fparam,
                              !.argv = ChunkArgv(run[t].p, order[1], 0, fparam).argv])
             /\ UNCHANGED <<handler, sent, target>>
     ELSE /\ handler' = Put(handler, t, "respond")
          /\ target' = Effect(target, run[t].argv, o.kind)
          /\ sent' = Put(sent, t, Sent(t, o))
          /\ UNCHANGED run
  /\ UNCHANGED <<authVars, serveFrame>>

\* Lines 311-357, 386-389: a chunk call of thread t ends.
ChunkEnds(t, o) ==
  /\ handler[t] = "exec"
  /\ run[t].chunks # <<>>
  /\ target' = Effect(target, run[t].argv, o.kind)
  /\ sent' = Put(sent, t, Sent(t, o))
  /\ IF o.kind = "ok" /\ run[t].idx + 1 < Len(run[t].chunks)
     THEN LET fparam == Discovered(run[t].p.command, run[t].idx, run[t].fparam,
                                   run_with_output(o.stdout, o.stderr))
          IN /\ run' = Put(run, t,
                           [run[t] EXCEPT
                              !.idx = run[t].idx + 1, !.fparam = fparam,
                              !.argv = ChunkArgv(run[t].p,
                                                 run[t].chunks[run[t].idx + 2],
                                                 run[t].idx + 1, fparam).argv])
             /\ UNCHANGED handler
     ELSE /\ handler' = Put(handler, t, "respond")
          /\ UNCHANGED run
  /\ UNCHANGED <<authVars, serveFrame>>

\* Lines 466-470 (and 399-419): the response is written and the thread
\* is done with the request.
Respond(t) ==
  /\ handler[t] = "respond"
  /\ handler' = Put(handler, t, "idle")
  /\ run' = Put(run, t, NoRun)
  /\ UNCHANGED <<authVars, serveFrame, sent, target>>

NextServe ==
  \/ \E t \in Threads, tok \in {TokA, TokB} : Receive(t, tok)
  \/ \E t \in Threads : Refuse(t)
  \/ \E t \in Threads : Acquire(t)
  \/ \E t \in Threads : Read(t)
  \/ \E t \in Threads : Persist(t)
  \/ \E t \in Threads : Returns(t)
  \/ \E t \in Threads, c \in ServeLines : Dispatch(t, c)
  \/ \E t \in Threads, o \in ServeOutcomes : PrimaryEnds(t, o)
  \/ \E t \in Threads, o \in ServeOutcomes : ChunkEnds(t, o)
  \/ \E t \in Threads : Respond(t)

SpecServe == InitWith({ServeFile}) /\ [][NextServe]_vars

\* Threads whose request is inside an Executor call or writing its
\* response.
Outside == {t \in Threads : handler[t] \in {"exec", "respond"}}

\* C31 as stated: whenever some request is inside an Executor call or
\* writing its response, no thread holds the token-store lock.
C31_NoLockDuringCalls == Outside # {} => lock = NoThread

\* C31: a thread whose request is inside an Executor call or writing its
\* response does not hold the token-store lock and is not inside
\* authenticate; another thread may hold it meanwhile.
C31_OwnLockReleased ==
  \A t \in Outside : lock # t /\ pc[t] = "idle"

\* One request is inside a chunk call of its retry while the thread of
\* another request holds the lock and has rewritten the token file.
C31_Witness ==
  \E t, u \in Threads :
    /\ handler[t] = "exec"
    /\ run[t].chunks # <<>>
    /\ lock = u
    /\ pc[u] = "unlock"
    /\ changed[u]


\* The text is the contents the threads sent from the given places on, each
\* thread's in its own order, the threads' in any order.
RECURSIVE Interleaved(_, _)
Interleaved(text, from) ==
  IF text = <<>> THEN \A t \in Threads : from[t] > Len(sent[t])
  ELSE \E t \in Threads :
         /\ from[t] <= Len(sent[t])
         /\ startswith(text, sent[t][from[t]])
         /\ Interleaved(SubSeq(text, Len(sent[t][from[t]]) + 1, Len(text)),
                        [from EXCEPT ![t] = from[t] + 1])

\* Threads with a call of the Executor in flight.
InFlight == {t \in Threads : handler[t] = "exec"}

RECURSIVE FirstPath(_)
FirstPath(lines) ==
  IF lines = <<>> THEN NoneToken
  ELSE LET stripped == strip(Head(lines))
       IN IF stripped # <<>> /\ ~startswith(stripped, <<"#">>)
          THEN stripped
          ELSE FirstPath(Tail(lines))

\* Lines 165-167: the path of the first vault marked open; None when that
\* vault has no "path" key (the KeyError is caught at line 168) or no vault
\* is open.
RECURSIVE OpenVault(_)
OpenVault(vaults) ==
  IF vaults = <<>> THEN NoneToken
  ELSE IF Head(vaults).open THEN Head(vaults).path
  ELSE OpenVault(Tail(vaults))

\* Lines 161-169: the configuration of Obsidian, when it is there and is
\* JSON.
FromObsidian(config) ==
  IF config.exists /\ config.valid THEN OpenVault(config.vaults)
  ELSE NoneToken

\* Lines 150-172.
get_vault_path(file, config) ==
  IF file.exists /\ FirstPath(SplitLines(file.text)) # NoneToken
  THEN FirstPath(SplitLines(file.text))
  ELSE FromObsidian(config)

\* The vault-path files: none, an empty one, comments and blank lines
\* only, two paths behind a comment, and a path without a newline.
VaultFiles ==
  { NoFile,
    [exists |-> TRUE, text |-> <<>>],
    [exists |-> TRUE, text |-> <<"#", " ", "c", "\n", " ", "\n">>],
    [exists |-> TRUE,
     text |-> <<"#", "c", "\n", " ", "/", "v", " ", "\n", "/", "w", "\n">>],
    [exists |-> TRUE, text |-> <<"/", "v">>] }

\* The vaults of a configuration: open or not, with a path or without
\* the key (None).
VaultEntries ==
  [open : BOOLEAN, path : {<<"/", "o">>, NoneToken}]

\* The configurations: none, a file that is not JSON, and up to two
\* vaults.
Configs ==
  { NoConfig, [exists |-> TRUE, valid |-> FALSE, vaults |-> <<>>] }
    \cup {[exists |-> TRUE, valid |-> TRUE, vaults |-> v] :
            v \in UNION {[1..k -> VaultEntries] : k \in 0..2}}

InitVault ==
  /\ StoreInit({NoFile})
  /\ HttpIdle /\ RtIdle /\ SplitIdle /\ ExecIdle /\ BatchIdle /\ FilterIdle
  /\ ServeIdle
  /\ VAULT_PATH_FILE \in VaultFiles
  /\ OBSIDIAN_CONFIG \in Configs
  /\ vault_path = NotCalled

GetVaultPath ==
  /\ ~vault_path.done
  /\ vault_path' = [done |-> TRUE,
                    value |-> get_vault_path(VAULT_PATH_FILE, OBSIDIAN_CONFIG)]
  /\ UNCHANGED <<authVars, httpVars, rtVars, splitVars, execVars, batchVars,
                 filterVars, serveVars, VAULT_PATH_FILE, OBSIDIAN_CONFIG>>

NextVault == GetVaultPath

SpecVault == InitVault /\ [][NextVault]_vars

\* The stripped lines of the vault-path file that are neither blank nor
\* comments, in order.
PathLines(file) ==
  IF ~file.exists THEN <<>>
  ELSE SelectSeq([k \in DOMAIN splitlines(file.text) |->
                    strip(splitlines(file.text)[k])],
                 LAMBDA l : l # <<>> /\ l[1] # "#")

SLASH_CONFIG == <<"/", "c", "o", "n", "f", "i", "g">>

\* C32: get_vault_path returns "/config" when the vault-path file is
\* missing or holds no line that is neither blank nor a comment, and the
\* first such line otherwise.
C32_VaultPathFallsBack ==
  vault_path.done =>
    vault_path.value = IF PathLines(VAULT_PATH_FILE) = <<>> THEN SLASH_CONFIG
                       ELSE PathLines(VAULT_PATH_FILE)[1]


\* ------------------------------------- _build_command, then shlex.split
\* The characters the escaping and the quotation are about.
QuoteAlphabet == {"\\", "\"", "'", " ", "\n", "="}

QuoteValues == UNION {[1..k -> QuoteAlphabet] : k \in 0..MaxValue}

\* An append with the content in the quotation _build_command gives it.
QuoteLine(value) ==
  build_command(OBSIDIAN, APPEND,
                <<[key |-> PATH, value |-> <<"p">>],
                  [key |-> CONTENT, value |-> value]>>, {})

InitQuote ==
  /\ StoreInit({NoFile})
  /\ HttpIdle /\ RtIdle /\ ExecIdle /\ BatchIdle /\ FilterIdle
  /\ ServeIdle /\ VaultIdle
  /\ content \in QuoteValues
  /\ chunk_size = CHUNK_SIZE
  /\ chunks = <<>>

NextQuote ==
  \/ Submit(QuoteLine(content))
  \/ \E o \in ServeOutcomes : PrimaryReturns(o)
  \/ \E o \in ServeOutcomes : ChunkReturns(o)

SpecQuote == InitQuote /\ [][NextQuote]_vars

\* The argv has the token content=value, and its parameters give value
\* for content.
Carries(argv, value) ==
  /\ \E j \in 3..Len(argv) : argv[j] = CONTENT \o <<"=">> \o value
  /\ DictGet(parse_obsidian_args(argv).params, CONTENT, NoneToken) = value

\* C34: a value built into a command line and split again is the value:
\* the primary call has the content as it was, and the i-th call of the
\* retry has the i-th slice of the splitter.
C34_BuildSplitRoundTrip ==
  /\ cmd # <<>> => shlex_split(cmd).ok /\ Carries(shlex_split(cmd).argv, content)
  /\ Len(invoked) >= 1 => Carries(invoked[1].argv, content)
  /\ \A k \in 2..Len(invoked) :
       Carries(invoked[k].argv, split_content(content, CHUNK_SIZE)[k - 1])

\* A content of a backslash, a double quote, a newline and a single quote
\* went through a retry of two calls, the second with the newline and the
\* single quote.
C34_Witness ==
  /\ content = <<"\\", "\"", "\n", "'">>
  /\ epc = "done"
  /\ result.kind = "output"
  /\ Len(invoked) = 3
  /\ Carries(invoked[3].argv, <<"\n", "'">>)


\* ------------------------------------ failures inside the "with lock" block
\* Line 103: an exception leaves the "with" block, which releases the lock
\* on the way out; the call raises instead of returning and its locals are
\* gone.
RaiseHolding(t) ==
  /\ lock' = lock
  /\ pc' = [pc EXCEPT ![t] = "raised"]
  /\ provided_token' = [provided_token EXCEPT ![t] = <<>>]
  /\ now' = [now EXCEPT ![t] = 0]
  /\ fileRead' = [fileRead EXCEPT ![t] = NoFile]
  /\ kept' = [kept EXCEPT ![t] = <<>>]
  /\ changed' = [changed EXCEPT ![t] = FALSE]
  /\ matched' = [matched EXCEPT ![t] = FALSE]
Raise(t) ==
  /\ lock' = NoThread
  /\ pc' = [pc EXCEPT ![t] = "raised"]
  /\ provided_token' = [provided_token EXCEPT ![t] = <<>>]
  /\ now' = [now EXCEPT ![t] = 0]
  /\ fileRead' = [fileRead EXCEPT ![t] = NoFile]
  /\ kept' = [kept EXCEPT ![t] = <<>>]
  /\ changed' = [changed EXCEPT ![t] = FALSE]
  /\ matched' = [matched EXCEPT ![t] = FALSE]

\* Line 104: the file is there and reading it fails.
ReadFails(t) ==
  /\ pc[t] = "read"
  /\ TOKEN_FILE.exists
  /\ Raise(t)
  /\ UNCHANGED <<TOKEN_FILE, clock, calls, ticks, serial, extVars>>

\* Lines 86-93, 132: rewriting the file fails: at open(), which leaves the
\* file as it is, or after some of the lines were written.
PersistFails(t) ==
  /\ pc[t] = "write"
  /\ changed[t]
  /\ TOKEN_FILE' \in
       {TOKEN_FILE}
         \cup {write_token_file(SubSeq(kept[t], 1, k)) : k \in 0..(Len(kept[t]) - 1)}
  /\ Raise(t)
  /\ UNCHANGED <<clock, calls, ticks, serial, extVars>>

\* Line 103: a waiting call takes the lock once it is free.
Take(t) ==
  /\ pc[t] = "lock"
  /\ LockFree
  /\ lock' = t
  /\ pc' = [pc EXCEPT ![t] = "read"]
  /\ UNCHANGED <<TOKEN_FILE, clock, provided_token, now, fileRead, kept,
                 changed, matched, calls, ticks, serial, extVars>>

NextFailing ==
  \/ \E t \in Threads, tok \in Candidates : Call(t, tok)
  \/ \E t \in Threads : Take(t)
  \/ \E t \in Threads : Read(t)
  \/ \E t \in Threads : ReadFails(t)
  \/ \E t \in Threads : Persist(t)
  \/ \E t \in Threads : PersistFails(t)
  \/ \E t \in Threads : Release(t)

\* Every thread that can take a step takes one in the end, and a thread
\* waiting for the lock gets it when the lock is free again and again.
Fairness ==
  \A t \in Threads :
    /\ SF_vars(Take(t))
    /\ WF_vars(ReadFails(t) \/ Read(t))
    /\ WF_vars(PersistFails(t) \/ Persist(t))
    /\ WF_vars(Release(t))

SpecFair == Init /\ [][NextFailing]_vars /\ Fairness

\* C40: the lock is held only by a call inside the "with" block, so a call
\* that returned or raised has released it; and with fair scheduling every
\* call waiting for the lock gets it and every call holding it comes to
\* its end, by a return or by an exception.
C40_LockAlwaysReleased ==
  /\ [](\A t \in Threads : lock = t => pc[t] \in {"read", "write", "unlock"})
  /\ \A t \in Threads : (pc[t] = "lock") ~> (lock = t)
  /\ \A t \in Threads : (lock = t) ~> (lock # t /\ pc[t] \in {"idle", "raised"})

\* A call raised, and the call that waited behind it has the lock and has
\* done its work.
C40_Witness ==
  \E t \in Threads, u \in Threads :
    /\ pc[t] = "raised"
    /\ lock = u
    /\ pc[u] = "unlock"
    /\ matched[u]

====
